---------------------------- MODULE Spec2Model ----------------------------
(***************************************************************************)
(* Signal analysis engine of devxtools/ASH.                                *)
(*                                                                         *)
(*   src/mods/stock_analyzer.py   StockAnalyzer, BatchStockAnalyzer,       *)
(*                                analyze_stock_simple, batch_analyze_stocks*)
(*   src/app2.py                  CacheManager, StockSignalAnalyzer        *)
(*                                                                         *)
(* Prices, volumes and indicator values are integers in the unit of the    *)
(* series; BB_position is carried in tenths (3 is 0.3).  A reason text is   *)
(* an ASCII tag of the Chinese text the code appends.                       *)
(***************************************************************************)
EXTENDS Integers, Sequences, FiniteSets, TLC

VARIABLES
    \* ---- one analyzer object and the provider's answer it was built from
    source,        \* what get_price answers for the analyzer's stock code
    cls,           \* "none", "StockAnalyzer" or "StockSignalAnalyzer"
    df,            \* self.df
    ret,           \* what the last call returned (or that it raised)
    \* ---- the scorer applied to one indicator snapshot
    snap,          \* the latest / previous enriched bars
    signals,       \* the signals dict
    confidence,    \* the confidence score
    analyses,      \* what the analyze calls on this snapshot returned, the last two
    \* ---- one BatchStockAnalyzer object
    stock_list,    \* self.stock_list
    feed,          \* feed[i]: what get_price answers for stock_list[i]
    min_conf,      \* min_confidence of the latest analyze_all run
    results,       \* self.results
    bret,          \* what the last batch call returned (or that it raised)
    fetched,       \* the stock codes get_price was called for, in order
    \* ---- one CacheManager object and the threads calling it
    ttl,           \* self.ttl
    cache,         \* self.cache: key -> <<data, timestamp>>
    lock,          \* self.lock: "free" or the thread holding it
    now,           \* time.time()
    cret,          \* what the last (sequential) cache call returned
    last_set,      \* key -> <<value, time>> of the latest completed set(key, .)
    prev_set,      \* key -> <<value, time>> of the completed set before that one
    pc,            \* thread -> its place in get / set
    loc,           \* thread -> its local variables
    \* ---- one analyzer's series, bar by bar
    series,        \* the bars of self.df, oldest first
    cols,          \* the indicator columns attached to self.df
    iret,          \* what the last call on the series returned
    \* ---- the realtime overlay
    realtime_data, \* what get_realtime_data returned
    day_analysis,  \* what the daily analyze returned
    rt_signals,    \* what _generate_realtime_signals returned
    minute_feed,   \* minute_feed[i]: what get_price_min_tx answers for stock_list[i]
    \* ---- the DataFrame objects of the analyzers that fetch through the cache
    heap,          \* object -> the DataFrame it is (rows, columns)
    selfdf,        \* analyzer -> the object self.df refers to
    price_calls,   \* key -> what get_price answered, call by call
    stored,        \* key -> the DataFrame as it was when cache.set stored it
    \* ---- one ConnectionManager object (src/mods/news_monitor.py)
    active_connections, \* client -> whether its websocket accepts a send ("ok") or raises ("broken")
    stock_subscriptions, \* stock code -> the list of subscribed clients
    delivered,     \* client -> the number of times the last broadcast reached it
    nret,          \* the last call on the manager
    \* ---- one get_2min_data call
    minute_bars,   \* what get_price_min_tx answers for the 1-minute bars
    total_minutes, \* the total_minutes argument
    two_min        \* what get_2min_data returned

avars == <<source, cls, df, ret>>
svars == <<snap, signals, confidence, analyses>>
bvars == <<stock_list, feed, min_conf, results, bret, fetched>>
cvars == <<ttl, cache, lock, now, cret, last_set, prev_set, pc, loc>>
ivars == <<series, cols, iret>>
rvars == <<realtime_data, day_analysis, rt_signals, minute_feed>>
fvars == <<heap, selfdf, price_calls, stored>>
nvars == <<active_connections, stock_subscriptions, delivered, nret>>
mvars == <<minute_bars, total_minutes, two_min>>
vars == <<avars, svars, bvars, cvars, ivars, rvars, fvars, nvars, mvars>>

---------------------------------------------------------------------------
\* Floating point values without a number.

\* NaN: a rolling window that is not full, 0/0, or a missing observation.
NaN == -999

IsNum(x) == x # NaN

\* Every ordered comparison with NaN is False in Python / numpy.
GT(a, b) == IsNum(a) /\ IsNum(b) /\ a > b
LT(a, b) == IsNum(a) /\ IsNum(b) /\ a < b
LE(a, b) == IsNum(a) /\ IsNum(b) /\ a <= b
GE(a, b) == IsNum(a) /\ IsNum(b) /\ a >= b

Min(a, b) == IF a <= b THEN a ELSE b
Max(a, b) == IF a >= b THEN a ELSE b
Abs(a) == IF a >= 0 THEN a ELSE -a

\* the elements of a list
Elements(seq) == {seq[k] : k \in 1..Len(seq)}

\* calculate_indicators refuses a series shorter than this.
MinBars == 30
\* _calculate_risk_metrics refuses a series shorter than this.
MinRiskBars == 20
\* the per-category cap of _calculate_confidence
CategoryCap == 30
\* the ceiling of the confidence score
MaxConfidence == 100

---------------------------------------------------------------------------
\* The enriched latest and previous bars, as the scorers read them.
\*   close, open, high, low, volume        latest bar (df.iloc[-1])
\*   prev_close, prev_open, prev_volume    previous bar (df.iloc[-2])
\*   d1_open, d1_close                     third last bar (df.iloc[-3])
\*   MA5_6                                 df['MA5'].iloc[-6]
\*   the indicator columns of the latest bar, MACD also of the previous one

TrendInputs ==
    [close: {10, 12}, MA5: {10, 13}, MA10: {12}, MA20: {11, NaN}, MA5_6: {10, 13}]

\* <<MACD, MACD_signal, prev MACD, prev MACD_signal>>
MACDCases ==
    { <<1, 0, -1, 0>>,      \* crossing, above zero
      <<-1, -2, -3, -2>>,   \* crossing, below zero
      <<1, 0, 1, 0>>,       \* above the signal on both bars, above zero
      <<-1, -2, -1, -2>>,   \* above the signal on both bars, below zero
      <<-2, -1, -2, -1>> }  \* below the signal

MomentumInputs == [RSI: {20, 50, 80, NaN}, macd: MACDCases]

VolumeInputs == [volume: {100, 200, NaN}, prev_volume: {150}, volume_ma5: {120, 150}]

OscillatorInputs == [K: {10, 50}, D: {40}, BB_position: {2, 5, 8}]

\* the candles: the latest bar's open is close + open_off, its low either far
\* below the body (a long lower shadow) or at the body
PatternInputs ==
    [open_off: {-1, 1}, long_shadow: BOOLEAN, d1: {<<12, 10>>, <<10, 12>>},
     prev_open: {9}]

MkSnap(t, m, v, o, p) ==
    [close |-> t.close, MA5 |-> t.MA5, MA10 |-> t.MA10, MA20 |-> t.MA20,
     MA5_6 |-> t.MA5_6,
     RSI |-> m.RSI, MACD |-> m.macd[1], MACD_signal |-> m.macd[2],
     prev_MACD |-> m.macd[3], prev_MACD_signal |-> m.macd[4],
     volume |-> v.volume, prev_volume |-> v.prev_volume,
     volume_ma5 |-> v.volume_ma5,
     K |-> o.K, D |-> o.D, BB_position |-> o.BB_position,
     open |-> t.close + p.open_off,
     high |-> Max(t.close, t.close + p.open_off),
     low |-> IF p.long_shadow THEN Min(t.close, t.close + p.open_off) - 3
             ELSE Min(t.close, t.close + p.open_off),
     prev_close |-> 11, prev_open |-> p.prev_open,
     d1_open |-> p.d1[1], d1_close |-> p.d1[2],
     has |-> TRUE]

Snapshots ==
    { MkSnap(t, m, v, o, p) :
        t \in TrendInputs, m \in MomentumInputs, v \in VolumeInputs,
        o \in OscillatorInputs, p \in PatternInputs }

\* the bars of the scenarios, prices in hundredths:
\* <<open, high, low, close>> of the latest bar
ScenarioCandles ==
    { <<1000, 1005, 950, 995>>,    \* open 10.00, high 10.05, low 9.50, close 9.95
      <<1000, 1002, 950, 995>> }   \* the same bar with a high of 10.02

CandleSnap(c) ==
    [close |-> c[4], MA5 |-> 990, MA10 |-> 1000, MA20 |-> 1010, MA5_6 |-> 990,
     RSI |-> 50, MACD |-> -2, MACD_signal |-> -1,
     prev_MACD |-> -2, prev_MACD_signal |-> -1,
     volume |-> 100, prev_volume |-> 150, volume_ma5 |-> 120,
     K |-> 50, D |-> 60, BB_position |-> 5,
     open |-> c[1], high |-> c[2], low |-> c[3],
     prev_close |-> 1000, prev_open |-> 1010,
     d1_open |-> 1000, d1_close |-> 1020,
     has |-> TRUE]

ScenarioSnapshots == { CandleSnap(c) : c \in ScenarioCandles }

\* latest.get(column, default): the default only when the column is not there
\* (calculate_indicators has not run); a column that is there answers its value,
\* NaN included.
Get(row, value, default) == IF row.has THEN value ELSE default

\* volume_ratio > 1.5, where volume_ratio = df['volume'] / df['volume_ma5']:
\* NaN when either is NaN, +inf when a positive volume is divided by 0.
VolumeRatioAbove(row) ==
    /\ IsNum(row.volume) /\ IsNum(row.volume_ma5)
    /\ IF row.volume_ma5 = 0 THEN row.volume > 0
       ELSE 2 * row.volume > 3 * row.volume_ma5

\* no call has returned yet
Nothing == [kind |-> "none"]

NoSignals ==
    [trend |-> [reasons |-> <<>>, score |-> 0],
     momentum |-> [reasons |-> <<>>, score |-> 0],
     volume |-> [reasons |-> <<>>, score |-> 0],
     oscillators |-> [reasons |-> <<>>, score |-> 0],
     patterns |-> [patterns |-> <<>>, score |-> 0]]

\* no snapshot is being scored
NoScore ==
    /\ snap = [has |-> FALSE]
    /\ signals = NoSignals
    /\ confidence = 0
    /\ analyses = <<>>

\* no batch analyzer exists
NoBatch ==
    /\ stock_list = <<>>
    /\ feed = <<>>
    /\ min_conf = 0
    /\ results = <<>>
    /\ bret = [op |-> "none", val |-> <<>>, raised |-> FALSE]
    /\ fetched = <<>>

\* no cache manager is in use
NoCache ==
    /\ ttl = 0
    /\ cache = <<>>
    /\ lock = "free"
    /\ now = 0
    /\ cret = [op |-> "none"]
    /\ last_set = <<>>
    /\ prev_set = <<>>
    /\ pc = <<>>
    /\ loc = <<>>

\* a DataFrame without indicator columns
NoColumns == [attached |-> {}]

\* no series is held bar by bar
NoSeries ==
    /\ series = <<>>
    /\ cols = NoColumns
    /\ iret = [op |-> "none"]

\* the realtime overlay: not in use
NoRealtime ==
    /\ realtime_data = Nothing
    /\ day_analysis = Nothing
    /\ rt_signals = Nothing
    /\ minute_feed = <<>>

\* the DataFrame objects of the analyzers that fetch through the cache: not in use
NoFetch ==
    /\ heap = <<>>
    /\ selfdf = <<>>
    /\ price_calls = <<>>
    /\ stored = <<>>

\* one ConnectionManager object (src/mods/news_monitor.py): not in use
NoConnections ==
    /\ active_connections = <<>>
    /\ stock_subscriptions = <<>>
    /\ delivered = <<>>
    /\ nret = [op |-> "none"]

\* one get_2min_data call: not in use
NoMinutes ==
    /\ minute_bars = Nothing
    /\ total_minutes = 0
    /\ two_min = Nothing

\* a category built from the conditions in the order the code tests them:
\* conds is a sequence of <<holds, points, reason>>
RECURSIVE Accumulate(_)
Accumulate(conds) ==
    IF conds = <<>> THEN [reasons |-> <<>>, score |-> 0]
    ELSE LET rest == Accumulate(Tail(conds))
             c == Head(conds)
         IN  IF c[1]
             THEN [reasons |-> <<c[3]>> \o rest.reasons, score |-> c[2] + rest.score]
             ELSE rest


---------------------------------------------------------------------------
\* StockAnalyzer (src/mods/stock_analyzer.py)

\* the trend part of _analyze_signals
SA_trend(row) ==
    LET ma5 == Get(row, row.MA5, 0)
        ma10 == Get(row, row.MA10, 0)
        ma20 == Get(row, row.MA20, 0)
    IN  Accumulate(<<
            <<GT(row.close, ma20), 15, "price_above_MA20">>,
            <<GT(ma5, ma10) /\ GT(ma10, ma20), 10, "MA_bullish_alignment">> >>)

SA_analyze_signals(row) ==
    LET rsi == Get(row, row.RSI, 50)
        macd == Get(row, row.MACD, 0)
        macd_signal == Get(row, row.MACD_signal, 0)
        prev_macd == Get(row, row.prev_MACD, 0)
        prev_signal == Get(row, row.prev_MACD_signal, 0)
        k_value == Get(row, row.K, 50)
        bb_position == Get(row, row.BB_position, 5)
        healthy == GT(rsi, 30) /\ LT(rsi, 70)
    IN  [trend |-> SA_trend(row),
         momentum |-> Accumulate(<<
             <<healthy, 10, "RSI_healthy">>,
             <<~healthy /\ LT(rsi, 30), 20, "RSI_oversold">>,
             <<GT(macd, macd_signal) /\ LE(prev_macd, prev_signal), 15,
               "MACD_golden_cross">> >>),
         volume |-> Accumulate(<<
             <<IF row.has THEN VolumeRatioAbove(row) ELSE FALSE, 15, "volume_surge">>,
             <<GT(row.close, row.prev_close) /\ GT(row.volume, row.prev_volume), 10,
               "price_and_volume_up">> >>),
         oscillators |-> Accumulate(<<
             <<LT(k_value, 20), 15, "K_oversold">>,
             <<LT(bb_position, 3), 10, "near_lower_band">> >>),
         patterns |-> [patterns |-> <<>>, score |-> 0]]

\* the categories in the order of the dict
Categories == <<"trend", "momentum", "volume", "oscillators", "patterns">>

RECURSIVE CappedSum(_, _)
CappedSum(sig, cats) ==
    IF cats = <<>> THEN 0
    ELSE Min(sig[Head(cats)].score, CategoryCap) + CappedSum(sig, Tail(cats))

SA_calculate_confidence_unclamped(sig) == CappedSum(sig, Categories)

SA_calculate_confidence(sig) == Min(CappedSum(sig, Categories), MaxConfidence)

---------------------------------------------------------------------------
\* StockSignalAnalyzer (src/app2.py)

SSA_analyze_trend(row) ==
    Accumulate(<<
        <<GT(row.MA5, row.MA10) /\ GT(row.MA10, row.MA20), 25, "MA_bullish_alignment">>,
        <<GT(row.close, row.MA20), 15, "price_above_MA20">>,
        \* ma_slope = (MA5 - MA5[-6]) / MA5[-6] * 100 > 1, MA5[-6] > 0
        <<IsNum(row.MA5) /\ IsNum(row.MA5_6)
              /\ (row.MA5 - row.MA5_6) * 100 > row.MA5_6, 10, "MA5_rising">> >>)

SSA_analyze_momentum(row) ==
    LET healthy == GT(row.RSI, 30) /\ LT(row.RSI, 70)
        cross == GT(row.MACD, row.MACD_signal)
                     /\ LE(row.prev_MACD, row.prev_MACD_signal)
    IN  Accumulate(<<
            <<healthy, 10, "RSI_healthy">>,
            <<~healthy /\ LT(row.RSI, 30), 20, "RSI_oversold">>,
            <<cross, 25, "MACD_golden_cross">>,
            <<~cross /\ GT(row.MACD, 0), 15, "MACD_above_zero">> >>)

SSA_analyze_volume(row) ==
    Accumulate(<<
        <<VolumeRatioAbove(row), 20, "volume_surge">>,
        <<GT(row.close, row.prev_close) /\ GT(row.volume, row.prev_volume), 15,
          "price_and_volume_up">>,
        <<GT(row.volume, row.volume_ma5), 10, "volume_above_ma5">> >>)

SSA_analyze_oscillators(row) ==
    LET oversold == LT(row.K, 20)
        low_band == LT(row.BB_position, 3)
    IN  Accumulate(<<
            <<oversold, 15, "K_oversold">>,
            <<~oversold /\ GT(row.K, row.D), 10, "KD_golden_cross">>,
            <<low_band, 10, "near_lower_band">>,
            <<~low_band /\ GT(row.BB_position, 7), 5, "near_upper_band">> >>)

is_hammer_lenient(open, high, low, close) ==
    LET body_size == Abs(close - open)
        lower_shadow == Min(close, open) - low
        upper_shadow == high - Max(close, open)
    IN  lower_shadow > body_size * 2 /\ upper_shadow <= body_size

\* lower_shadow > body_size * 2 and upper_shadow < body_size * 0.5
is_hammer(open, high, low, close) ==
    LET body_size == Abs(close - open)
        lower_shadow == Min(close, open) - low
        upper_shadow == high - Max(close, open)
    IN  lower_shadow > body_size * 2 /\ 2 * upper_shadow < body_size

is_morning_star(row) ==
    /\ row.d1_close < row.d1_open
    /\ row.prev_open < row.d1_close
    /\ row.close > row.open
    /\ 2 * row.close > row.d1_open + row.d1_close

SSA_check_patterns(row) ==
    LET found == Accumulate(<<
            <<is_hammer(row.open, row.high, row.low, row.close), 10, "hammer">>,
            <<is_morning_star(row), 10, "morning_star">> >>)
    IN  [patterns |-> found.reasons, score |-> Len(found.reasons) * 10]

SSA_analyze_signals(row) ==
    [trend |-> SSA_analyze_trend(row),
     momentum |-> SSA_analyze_momentum(row),
     volume |-> SSA_analyze_volume(row),
     oscillators |-> SSA_analyze_oscillators(row),
     patterns |-> SSA_check_patterns(row)]

\* every category capped, then the patterns score added a second time
SSA_calculate_confidence(sig) ==
    Min(CappedSum(sig, Categories) + sig.patterns.score, MaxConfidence)

---------------------------------------------------------------------------
\* The results of analyze.

empty_result(code) ==
    [kind |-> "empty", stock_code |-> code, error |-> "insufficient_or_failed",
     success |-> FALSE]

Raised == [kind |-> "raised"]

RECURSIVE Concat(_, _)
Concat(sig, cats) ==
    IF cats = <<>> THEN <<>>
    ELSE (IF Head(cats) = "patterns" THEN <<>> ELSE sig[Head(cats)].reasons)
             \o Concat(sig, Tail(cats))

FirstN_uncut(s, k) == s

FirstN(s, k) == SubSeq(s, 1, Min(Len(s), k))

Verdict_strict(c) ==
    IF c >= 75 THEN <<"strong_buy", "BUY", "medium_30_50">>
    ELSE IF c > 60 THEN <<"buy", "BUY", "light_20_30">>
    ELSE IF c >= 45 THEN <<"watch", "HOLD", "wait">>
    ELSE <<"avoid", "SELL", "none">>

Verdict(c) ==
    IF c >= 75 THEN <<"strong_buy", "BUY", "medium_30_50">>
    ELSE IF c >= 60 THEN <<"buy", "BUY", "light_20_30">>
    ELSE IF c >= 45 THEN <<"watch", "HOLD", "wait">>
    ELSE <<"avoid", "SELL", "none">>

\* _generate_result; int(latest['volume']) raises on a NaN volume
SA_generate_result(code, row, sig, c) ==
    IF ~IsNum(row.volume) THEN Raised
    ELSE [kind |-> "populated",
          stock_code |-> code,
          success |-> TRUE,
          current_price |-> row.close,
          volume |-> row.volume,
          confidence_score |-> c,
          signal |-> Verdict(c)[1],
          action |-> Verdict(c)[2],
          position_suggestion |-> Verdict(c)[3],
          key_reasons |-> FirstN(Concat(sig, Categories), 5),
          detailed_signals |-> sig]

\* StockSignalAnalyzer._generate_result: the reasons of the categories, then
\* the names of the patterns; int(latest['volume']) raises on a NaN volume
SSA_all_reasons(sig) == Concat(sig, Categories) \o sig.patterns.patterns

SSA_generate_result(code, row, sig, c) ==
    IF ~IsNum(row.volume) THEN Raised
    ELSE [kind |-> "populated",
          stock_code |-> code,
          current_price |-> row.close,
          volume |-> row.volume,
          confidence_score |-> c,
          signal |-> Verdict(c)[1],
          action |-> Verdict(c)[2],
          position_suggestion |-> Verdict(c)[3],
          key_reasons |-> FirstN(SSA_all_reasons(sig), 5),
          detailed_signals |-> sig]

\* the stock code of the single analyzer
StockCode == "sh600519"

\* the last two of the results so far and a new one
Remember(seq, r) == IF seq = <<>> THEN <<r>> ELSE <<seq[Len(seq)], r>>

---------------------------------------------------------------------------
\* The scorer and _calculate_confidence applied to one snapshot.

ScoreInit ==
    /\ snap \in Snapshots \cup ScenarioSnapshots
    /\ signals = NoSignals
    /\ confidence = 0
    /\ analyses = <<>>
    /\ cls = "none"
    /\ source = [kind |-> "none"]
    /\ df = [n |-> 0]
    /\ ret = [op |-> "none", val |-> Nothing]
    /\ NoBatch
    /\ NoCache
    /\ NoSeries
    /\ NoRealtime
    /\ NoFetch
    /\ NoConnections
    /\ NoMinutes

\* StockAnalyzer.analyze on a series of at least 30 bars whose last bars are
\* snap: _analyze_signals, _calculate_confidence, _generate_result
SA_Score ==
    /\ cls = "none"
    /\ cls' = "StockAnalyzer"
    /\ signals' = SA_analyze_signals(snap)
    /\ confidence' = SA_calculate_confidence(signals')
    /\ analyses' = <<SA_generate_result(StockCode, snap, signals', confidence')>>
    /\ UNCHANGED <<snap, source, df, ret, bvars, cvars, ivars, rvars, fvars, nvars, mvars>>

\* StockSignalAnalyzer.analyze on such a series: self.signals and
\* self.confidence_score are assigned, then _generate_result reads them
SSA_Score ==
    /\ cls = "none"
    /\ cls' = "StockSignalAnalyzer"
    /\ signals' = SSA_analyze_signals(snap)
    /\ confidence' = SSA_calculate_confidence(signals')
    /\ analyses' = <<SSA_generate_result(StockCode, snap, signals', confidence')>>
    /\ UNCHANGED <<snap, source, df, ret, bvars, cvars, ivars, rvars, fvars, nvars, mvars>>

\* the scores of sig added to those self.signals holds already
AddScores(old, sig) ==
    [c \in DOMAIN sig |-> [sig[c] EXCEPT !.score = old[c].score + @]]

AnalyzeAgain_keeping_signals ==
    /\ cls = "StockSignalAnalyzer"
    /\ signals' = AddScores(signals, SSA_analyze_signals(snap))
    /\ confidence' = SSA_calculate_confidence(signals')
    /\ analyses' = Remember(analyses,
           SSA_generate_result(StockCode, snap, signals', confidence'))
    /\ UNCHANGED <<snap, source, cls, df, ret, bvars, cvars, ivars, rvars, fvars, nvars, mvars>>

\* analyze called once more on the same analyzer, its series unchanged
AnalyzeAgain ==
    /\ cls # "none"
    /\ signals' = IF cls = "StockAnalyzer" THEN SA_analyze_signals(snap)
                  ELSE SSA_analyze_signals(snap)
    /\ confidence' = IF cls = "StockAnalyzer" THEN SA_calculate_confidence(signals')
                     ELSE SSA_calculate_confidence(signals')
    /\ analyses' = Remember(analyses,
           IF cls = "StockAnalyzer"
           THEN SA_generate_result(StockCode, snap, signals', confidence')
           ELSE SSA_generate_result(StockCode, snap, signals', confidence'))
    /\ UNCHANGED <<snap, source, cls, df, ret, bvars, cvars, ivars, rvars, fvars, nvars, mvars>>

ScoreNext == SA_Score \/ SSA_Score \/ AnalyzeAgain

SpecScore == ScoreInit /\ [][ScoreNext]_vars

---------------------------------------------------------------------------
\* One StockAnalyzer object: construction, calculate_indicators, analyze.
\*
\* get_price's answer for the stock code is `source`:
\*   kind "raise"  the call raises
\*   kind "none"   the call answers None
\*   kind "df"     a DataFrame of n bars (n = 0: an empty one); row holds the
\*                 last bars and the values the indicator columns take on them
\*                 once calculate_indicators has attached them (row.has)

MaxBars == 31

BarCounts == {0, 1, MinBars - 1, MinBars} \cup (MinBars + 1 .. MaxBars)

SourceRows ==
    { [MkSnap(t, [RSI |-> 50, macd |-> <<1, 0, -1, 0>>], v,
              [K |-> 10, D |-> 40, BB_position |-> 2],
              [open_off |-> -1, long_shadow |-> TRUE, d1 |-> <<12, 10>>,
               prev_open |-> 9])
        EXCEPT !.has = FALSE] :
        t \in TrendInputs, v \in VolumeInputs }

Sources ==
    {[kind |-> "raise"], [kind |-> "none"]}
        \cup [kind: {"df"}, n: BarCounts, row: SourceRows]

EmptyDF == [n |-> 0]

\* _fetch_data: the series, or an empty DataFrame when get_price raises or its
\* answer has no .empty (the AttributeError is caught like any other exception)
SA_fetch_data(src) ==
    IF src.kind = "df" /\ src.n > 0 THEN [n |-> src.n, row |-> src.row]
    ELSE EmptyDF

\* self.df.empty or len(self.df) < 30
TooShort(d) == d.n = 0 \/ d.n < MinBars

\* calculate_indicators: <<the value returned, self.df afterwards>>
SA_calculate_indicators(d) ==
    IF TooShort(d) THEN <<FALSE, d>>
    ELSE <<TRUE, [d EXCEPT !.row.has = TRUE]>>

SA_analyze_unguarded(code, d) ==
    IF d.n = 0 THEN empty_result(code)
    ELSE IF d.n < 2 THEN Raised
    ELSE LET sig == SA_analyze_signals(d.row)
         IN  SA_generate_result(code, d.row, sig, SA_calculate_confidence(sig))

\* analyze
SA_analyze(code, d) ==
    IF TooShort(d) THEN empty_result(code)
    ELSE LET sig == SA_analyze_signals(d.row)
         IN  SA_generate_result(code, d.row, sig, SA_calculate_confidence(sig))

\* analyze_stock_simple: <<the value returned, the analyzer's df afterwards>>
analyze_stock_simple(code, src) ==
    LET d0 == SA_fetch_data(src)
        ci == SA_calculate_indicators(d0)
    IN  IF TooShort(d0) THEN <<empty_result(code), d0>>
        ELSE IF ~ci[1] THEN <<empty_result(code), ci[2]>>
        ELSE <<SA_analyze(code, ci[2]), ci[2]>>

AnalyzeInit ==
    /\ source \in Sources
    /\ cls = "none"
    /\ df = EmptyDF
    /\ ret = [op |-> "none", val |-> Nothing]
    /\ NoScore
    /\ NoBatch
    /\ NoCache
    /\ NoSeries
    /\ NoRealtime
    /\ NoFetch
    /\ NoConnections
    /\ NoMinutes

\* StockAnalyzer(stock_code, period_days)
Construct ==
    /\ cls = "none"
    /\ cls' = "StockAnalyzer"
    /\ df' = SA_fetch_data(source)
    /\ ret' = [op |-> "init", val |-> Nothing]
    /\ UNCHANGED <<source, svars, bvars, cvars, ivars, rvars, fvars, nvars, mvars>>

CalculateIndicators ==
    /\ cls = "StockAnalyzer"
    /\ LET ci == SA_calculate_indicators(df)
       IN  /\ df' = ci[2]
           /\ ret' = [op |-> "calculate_indicators",
                      val |-> [kind |-> "bool", value |-> ci[1]]]
    /\ UNCHANGED <<source, cls, svars, bvars, cvars, ivars, rvars, fvars, nvars, mvars>>

Analyze ==
    /\ cls = "StockAnalyzer"
    /\ ret' = [op |-> "analyze", val |-> SA_analyze(StockCode, df)]
    /\ UNCHANGED <<source, cls, df, svars, bvars, cvars, ivars, rvars, fvars, nvars, mvars>>

AnalyzeStockSimple ==
    /\ cls = "none"
    /\ cls' = "StockAnalyzer"
    /\ LET r == analyze_stock_simple(StockCode, source)
       IN  /\ ret' = [op |-> "analyze_stock_simple", val |-> r[1]]
           /\ df' = r[2]
    /\ UNCHANGED <<source, svars, bvars, cvars, ivars, rvars, fvars, nvars, mvars>>

AnalyzeNext == Construct \/ CalculateIndicators \/ Analyze \/ AnalyzeStockSimple

SpecAnalyze == AnalyzeInit /\ [][AnalyzeNext]_vars

---------------------------------------------------------------------------
\* BatchStockAnalyzer (src/mods/stock_analyzer.py)

MaxStocks == 3
MaxLong == 11

Symbols == {"sh600519", "sz000858"}

\* rows of series long enough to analyze: strong, middling, and one whose latest
\* volume is missing (int(latest['volume']) raises)
BatchRow(close, ma5, rsi, macd, volume, k, bb) ==
    [MkSnap([close |-> close, MA5 |-> ma5, MA10 |-> 12, MA20 |-> 11, MA5_6 |-> 10],
            [RSI |-> rsi, macd |-> macd],
            [volume |-> volume, prev_volume |-> 150, volume_ma5 |-> 120],
            [K |-> k, D |-> 40, BB_position |-> bb],
            [open_off |-> -1, long_shadow |-> FALSE, d1 |-> <<10, 12>>,
             prev_open |-> 9])
        EXCEPT !.has = FALSE]

StrongRow == BatchRow(12, 13, 20, <<1, 0, -1, 0>>, 200, 10, 2)
MiddlingRow == BatchRow(12, 13, 50, <<1, 0, 1, 0>>, 100, 10, 2)
BrokenRow == BatchRow(12, 13, 50, <<1, 0, 1, 0>>, NaN, 10, 2)

BatchSources ==
    { [kind |-> "raise"],
      [kind |-> "df", n |-> MinBars - 1, row |-> StrongRow],
      [kind |-> "df", n |-> MinBars, row |-> BrokenRow],
      [kind |-> "df", n |-> MinBars, row |-> StrongRow],
      [kind |-> "df", n |-> MinBars + 1, row |-> MiddlingRow] }

DefaultMinConfidence == 80
DefaultTopN == 10

Thresholds == {60, MaxConfidence}
TopNs == {1, DefaultTopN}

\* result.get('success') and result['analysis']['confidence_score'] >= min_confidence
Qualifies_strict(r, t) ==
    r.kind = "populated" /\ r.success /\ r.confidence_score > t

Qualifies(r, t) ==
    r.kind = "populated" /\ r.success /\ r.confidence_score >= t

\* the body of the loop for one stock code: "append" with the result, "skip"
\* (a continue), or "exception" (raised inside the try)
AnalyzeOne(code, src, t) ==
    LET d0 == SA_fetch_data(src)
        ci == SA_calculate_indicators(d0)
        r == SA_analyze(code, ci[2])
    IN  IF TooShort(d0) THEN [kind |-> "skip"]
        ELSE IF ~ci[1] THEN [kind |-> "skip"]
        ELSE IF r.kind = "raised" THEN [kind |-> "exception"]
        ELSE IF Qualifies(r, t) THEN [kind |-> "append", result |-> r]
        ELSE [kind |-> "skip"]

\* except Exception: print, continue -- the rest of the list is still processed
on_exception_abort(code, rest) ==
    [results |-> <<>>, fetched |-> <<code>>, raised |-> TRUE]

on_exception(code, rest) ==
    [rest EXCEPT !.fetched = <<code>> \o @]

\* for i, stock_code in enumerate(self.stock_list, 1): ... from position i on
RECURSIVE analyze_all_loop(_, _, _, _)
analyze_all_loop(list, fd, t, i) ==
    IF i > Len(list) THEN [results |-> <<>>, fetched |-> <<>>, raised |-> FALSE]
    ELSE LET one == AnalyzeOne(list[i], fd[i], t)
             rest == analyze_all_loop(list, fd, t, i + 1)
         IN  IF one.kind = "exception" THEN on_exception(list[i], rest)
             ELSE IF one.kind = "append"
             THEN [rest EXCEPT !.fetched = <<list[i]>> \o @,
                               !.results = <<one.result>> \o @]
             ELSE [rest EXCEPT !.fetched = <<list[i]>> \o @]

\* list.sort(key=confidence_score, reverse=True): descending and stable.
\* The place of seq[i] in the sorted list: behind every element with a larger
\* key and behind the earlier elements with the same key.
SortedPlace_unstable(seq, i) ==
    1 + Cardinality({j \in 1..Len(seq) :
            \/ seq[j].confidence_score > seq[i].confidence_score
            \/ seq[j].confidence_score = seq[i].confidence_score /\ j > i})

SortedPlace(seq, i) ==
    1 + Cardinality({j \in 1..Len(seq) :
            \/ seq[j].confidence_score > seq[i].confidence_score
            \/ seq[j].confidence_score = seq[i].confidence_score /\ j < i})

sort_by_confidence(seq) ==
    [p \in 1..Len(seq) |-> seq[CHOOSE i \in 1..Len(seq) : SortedPlace(seq, i) = p]]

\* analyze_all: [results: the sorted list (also stored in self.results),
\*               fetched: the codes fetched, raised: an exception escaped]
analyze_all(list, fd, t) ==
    LET run == analyze_all_loop(list, fd, t, 1)
    IN  [run EXCEPT !.results = IF run.raised THEN <<>> ELSE sort_by_confidence(@)]

\* self.results[:top_n]
top_slice_uncut(res, top_n) == res

top_slice(res, top_n) == FirstN(res, top_n)

ShortLists == UNION { [1..n -> Symbols] : n \in 0..MaxStocks }
LongLists == UNION { [1..n -> {s}] : n \in (MaxStocks + 1)..MaxLong, s \in Symbols }

BatchInit ==
    /\ \/ /\ stock_list \in ShortLists
          /\ feed \in [1..Len(stock_list) -> BatchSources]
       \/ /\ stock_list \in LongLists
          /\ \E src \in BatchSources : feed = [i \in 1..Len(stock_list) |-> src]
    /\ min_conf = DefaultMinConfidence
    /\ results = <<>>
    /\ bret = [op |-> "none", val |-> <<>>, raised |-> FALSE]
    /\ fetched = <<>>
    /\ source = [kind |-> "none"]
    /\ cls = "none"
    /\ df = EmptyDF
    /\ ret = [op |-> "none", val |-> Nothing]
    /\ NoScore
    /\ NoCache
    /\ NoSeries
    /\ NoRealtime
    /\ NoFetch
    /\ NoConnections
    /\ NoMinutes

\* the effect of one analyze_all(t) run
RunAnalyzeAll(t) ==
    \E run \in {analyze_all(stock_list, feed, t)} :
        /\ min_conf' = t
        /\ fetched' = run.fetched
        /\ results' = IF run.raised THEN results ELSE run.results
        /\ bret' = [op |-> "analyze_all", val |-> run.results, raised |-> run.raised]

\* BatchStockAnalyzer.analyze_all(min_confidence)
AnalyzeAll ==
    /\ \E t \in Thresholds : RunAnalyzeAll(t)
    /\ UNCHANGED <<stock_list, feed, avars, svars, cvars, ivars, rvars, fvars, nvars, mvars>>

\* batch_analyze_stocks(stock_list, min_confidence): a new batch analyzer, and
\* what its analyze_all returns
BatchAnalyzeStocks ==
    /\ bret.op = "none"
    /\ \E t \in Thresholds : RunAnalyzeAll(t)
    /\ UNCHANGED <<stock_list, feed, avars, svars, cvars, ivars, rvars, fvars, nvars, mvars>>

\* BatchStockAnalyzer.get_top_stocks(top_n): an empty self.results makes it run
\* analyze_all() with the default min_confidence first
GetTopStocks ==
    /\ \E top_n \in TopNs :
          IF results = <<>>
          THEN \E run \in {analyze_all(stock_list, feed, DefaultMinConfidence)} :
                   /\ min_conf' = DefaultMinConfidence
                   /\ fetched' = run.fetched
                   /\ results' = IF run.raised THEN results ELSE run.results
                   /\ bret' = [op |-> "get_top_stocks", top_n |-> top_n,
                               val |-> IF run.raised THEN <<>>
                                       ELSE top_slice(run.results, top_n),
                               raised |-> run.raised]
          ELSE /\ bret' = [op |-> "get_top_stocks", top_n |-> top_n,
                           val |-> top_slice(results, top_n), raised |-> FALSE]
               /\ UNCHANGED <<min_conf, fetched, results>>
    /\ UNCHANGED <<stock_list, feed, avars, svars, cvars, ivars, rvars, fvars, nvars, mvars>>

BatchNext == AnalyzeAll \/ BatchAnalyzeStocks \/ GetTopStocks

SpecBatch == BatchInit /\ [][BatchNext]_vars

---------------------------------------------------------------------------
\* get_top_stocks after analyze_all, on series whose confidence lies between
\* the default min_confidence and a stricter one

MaxTopStocks == 2

\* a row that scores 80
GoodRow == BatchRow(12, 13, 20, <<1, 0, -1, 0>>, 100, 10, 2)

TopSources ==
    { [kind |-> "raise"],
      [kind |-> "df", n |-> MinBars, row |-> StrongRow],
      [kind |-> "df", n |-> MinBars, row |-> GoodRow] }

TopLists == UNION { [1..n -> Symbols] : n \in 0..MaxTopStocks }

TopInit ==
    /\ stock_list \in TopLists
    /\ feed \in [1..Len(stock_list) -> TopSources]
    /\ min_conf = DefaultMinConfidence
    /\ results = <<>>
    /\ bret = [op |-> "none", val |-> <<>>, raised |-> FALSE]
    /\ fetched = <<>>
    /\ source = [kind |-> "none"]
    /\ cls = "none"
    /\ df = EmptyDF
    /\ ret = [op |-> "none", val |-> Nothing]
    /\ NoScore
    /\ NoCache
    /\ NoSeries
    /\ NoRealtime
    /\ NoFetch
    /\ NoConnections
    /\ NoMinutes

TopNext == AnalyzeAll \/ GetTopStocks

SpecTopStocks == TopInit /\ [][TopNext]_vars

---------------------------------------------------------------------------
\* CacheManager (src/app2.py)

MaxTTL == 2
MaxTime == 3

Keys == {"data_sh600519_120", "data_sz000858_120"}
Values == {"df1", "df2"}
None == "None"

\* with self.lock: a thread enters when nobody holds the lock
CanAcquire_unlocked(lk) == TRUE

CanAcquire(lk) == lk = "free"

\* the dict with key k bound to entry e, and with key k deleted
Store(c, k, e) == [x \in DOMAIN c \cup {k} |-> IF x = k THEN e ELSE c[x]]
Delete(c, k) == [x \in DOMAIN c \ {k} |-> c[x]]

\* time.time() - timestamp < self.ttl
Fresh(t, timestamp, life) == t - timestamp < life

\* get, under the lock, at time t: <<the value returned, self.cache afterwards>>
cache_get_keep(c, k, t, life) ==
    IF k \in DOMAIN c /\ Fresh(t, c[k][2], life) THEN <<c[k][1], c>>
    ELSE <<None, c>>

cache_get(c, k, t, life) ==
    IF k \in DOMAIN c
    THEN IF Fresh(t, c[k][2], life) THEN <<c[k][1], c>>
         ELSE <<None, Delete(c, k)>>
    ELSE <<None, c>>

\* set, under the lock, at time t: self.cache afterwards
cache_set_keep_time(c, k, v, t) ==
    IF k \in DOMAIN c THEN Store(c, k, <<v, c[k][2]>>) ELSE Store(c, k, <<v, t>>)

cache_set(c, k, v, t) == Store(c, k, <<v, t>>)

\* the record of completed sets, kept beside the cache to state the properties
NoteSet(k, v, t) ==
    /\ last_set' = Store(last_set, k, <<v, t>>)
    /\ prev_set' = IF k \in DOMAIN last_set THEN Store(prev_set, k, last_set[k])
                   ELSE prev_set

\* CacheManager(ttl), used by one thread
CacheInit ==
    /\ ttl \in 0..MaxTTL
    /\ cache = <<>>
    /\ lock = "free"
    /\ now = 0
    /\ cret = [op |-> "none"]
    /\ last_set = <<>>
    /\ prev_set = <<>>
    /\ pc = <<>>
    /\ loc = <<>>
    /\ source = [kind |-> "none"]
    /\ cls = "none"
    /\ df = EmptyDF
    /\ ret = [op |-> "none", val |-> Nothing]
    /\ NoScore
    /\ NoBatch
    /\ NoSeries
    /\ NoRealtime
    /\ NoFetch
    /\ NoConnections
    /\ NoMinutes

\* the clock moves on
Tick ==
    /\ now < MaxTime
    /\ now' = now + 1
    /\ UNCHANGED <<ttl, cache, lock, cret, last_set, prev_set, pc, loc,
                   avars, svars, bvars, ivars, rvars, fvars, nvars, mvars>>

\* cache.get(key)
CacheGet ==
    /\ CanAcquire(lock)
    /\ \E k \in Keys :
          LET g == cache_get(cache, k, now, ttl)
          IN  /\ cache' = g[2]
              /\ cret' = [op |-> "get", key |-> k, val |-> g[1], at |-> now]
    /\ UNCHANGED <<ttl, lock, now, last_set, prev_set, pc, loc, avars, svars, bvars, ivars, rvars, fvars, nvars, mvars>>

\* cache.set(key, value)
CacheSet ==
    /\ CanAcquire(lock)
    /\ \E k \in Keys, v \in Values :
          /\ cache' = cache_set(cache, k, v, now)
          /\ cret' = [op |-> "set", key |-> k, val |-> v, at |-> now]
          /\ NoteSet(k, v, now)
    /\ UNCHANGED <<ttl, lock, now, pc, loc, avars, svars, bvars, ivars, rvars, fvars, nvars, mvars>>

CacheNext == Tick \/ CacheGet \/ CacheSet

SpecCache == CacheInit /\ [][CacheNext]_vars

\* ---- the same object called from several threads, one statement at a time

Threads == {"t1", "t2"}
ConcKeys == {"data_sh600519_120"}

NoLocals == [op |-> "none", key |-> None, value |-> None, data |-> None,
             timestamp |-> -1, at |-> -1, result |-> None]

Holding == {"get_test", "get_read", "get_time", "get_del", "get_exit",
            "set_store", "set_exit"}

ConcInit ==
    /\ ttl \in 0..MaxTTL
    /\ cache = <<>>
    /\ lock = "free"
    /\ now = 0
    /\ cret = [op |-> "none"]
    /\ last_set = <<>>
    /\ prev_set = <<>>
    /\ pc = [t \in Threads |-> "idle"]
    /\ loc = [t \in Threads |-> NoLocals]
    /\ source = [kind |-> "none"]
    /\ cls = "none"
    /\ df = EmptyDF
    /\ ret = [op |-> "none", val |-> Nothing]
    /\ NoScore
    /\ NoBatch
    /\ NoSeries
    /\ NoRealtime
    /\ NoFetch
    /\ NoConnections
    /\ NoMinutes

Goto(t, place) == pc' = [pc EXCEPT ![t] = place]

Quiet == UNCHANGED <<ttl, cret, avars, svars, bvars, ivars, rvars, fvars, nvars, mvars>>

\* a thread calls cache.get(key)
CallGet(t) ==
    /\ pc[t] = "idle"
    /\ \E k \in ConcKeys : loc' = [loc EXCEPT ![t] = [NoLocals EXCEPT !.op = "get", !.key = k]]
    /\ Goto(t, "get_lock")
    /\ UNCHANGED <<cache, lock, now, last_set, prev_set>>
    /\ Quiet

\* with self.lock:
GetLock(t) ==
    /\ pc[t] = "get_lock"
    /\ CanAcquire(lock)
    /\ lock' = t
    /\ Goto(t, "get_test")
    /\ UNCHANGED <<cache, now, last_set, prev_set, loc>>
    /\ Quiet

\* if key in self.cache:
GetTest(t) ==
    /\ pc[t] = "get_test"
    /\ IF loc[t].key \in DOMAIN cache THEN Goto(t, "get_read") ELSE Goto(t, "get_exit")
    /\ UNCHANGED <<cache, lock, now, last_set, prev_set, loc>>
    /\ Quiet

\* data, timestamp = self.cache[key]
GetRead(t) ==
    /\ pc[t] = "get_read"
    /\ IF loc[t].key \in DOMAIN cache
       THEN /\ loc' = [loc EXCEPT ![t].data = cache[loc[t].key][1],
                                  ![t].timestamp = cache[loc[t].key][2]]
            /\ Goto(t, "get_time")
       ELSE /\ loc' = [loc EXCEPT ![t].result = "KeyError"]
            /\ Goto(t, "get_exit")
    /\ UNCHANGED <<cache, lock, now, last_set, prev_set>>
    /\ Quiet

\* if time.time() - timestamp < self.ttl: return data
GetTime(t) ==
    /\ pc[t] = "get_time"
    /\ IF Fresh(now, loc[t].timestamp, ttl)
       THEN /\ loc' = [loc EXCEPT ![t].at = now, ![t].result = loc[t].data]
            /\ Goto(t, "get_exit")
       ELSE /\ loc' = [loc EXCEPT ![t].at = now]
            /\ Goto(t, "get_del")
    /\ UNCHANGED <<cache, lock, now, last_set, prev_set>>
    /\ Quiet

\* else: del self.cache[key]
GetDel(t) ==
    /\ pc[t] = "get_del"
    /\ IF loc[t].key \in DOMAIN cache
       THEN cache' = Delete(cache, loc[t].key) /\ loc' = loc
       ELSE cache' = cache /\ loc' = [loc EXCEPT ![t].result = "KeyError"]
    /\ Goto(t, "get_exit")
    /\ UNCHANGED <<lock, now, last_set, prev_set>>
    /\ Quiet

\* leaving the with block; return
GetExit(t) ==
    /\ pc[t] = "get_exit"
    /\ lock' = "free"
    /\ Goto(t, "idle")
    /\ UNCHANGED <<cache, now, last_set, prev_set, loc>>
    /\ Quiet

\* a thread calls cache.set(key, value)
CallSet(t) ==
    /\ pc[t] = "idle"
    /\ \E k \in ConcKeys, v \in Values :
          loc' = [loc EXCEPT ![t] = [NoLocals EXCEPT !.op = "set", !.key = k, !.value = v]]
    /\ Goto(t, "set_lock")
    /\ UNCHANGED <<cache, lock, now, last_set, prev_set>>
    /\ Quiet

\* with self.lock:
SetLock(t) ==
    /\ pc[t] = "set_lock"
    /\ CanAcquire(lock)
    /\ lock' = t
    /\ Goto(t, "set_store")
    /\ UNCHANGED <<cache, now, last_set, prev_set, loc>>
    /\ Quiet

\* self.cache[key] = (value, time.time())
SetStore(t) ==
    /\ pc[t] = "set_store"
    /\ cache' = cache_set(cache, loc[t].key, loc[t].value, now)
    /\ NoteSet(loc[t].key, loc[t].value, now)
    /\ loc' = [loc EXCEPT ![t].at = now]
    /\ Goto(t, "set_exit")
    /\ UNCHANGED <<lock, now>>
    /\ Quiet

\* leaving the with block
SetExit(t) ==
    /\ pc[t] = "set_exit"
    /\ lock' = "free"
    /\ Goto(t, "idle")
    /\ UNCHANGED <<cache, now, last_set, prev_set, loc>>
    /\ Quiet

ConcNext ==
    \/ Tick
    \/ \E t \in Threads : CallGet(t)
    \/ \E t \in Threads : GetLock(t)
    \/ \E t \in Threads : GetTest(t)
    \/ \E t \in Threads : GetRead(t)
    \/ \E t \in Threads : GetTime(t)
    \/ \E t \in Threads : GetDel(t)
    \/ \E t \in Threads : GetExit(t)
    \/ \E t \in Threads : CallSet(t)
    \/ \E t \in Threads : SetLock(t)
    \/ \E t \in Threads : SetStore(t)
    \/ \E t \in Threads : SetExit(t)

SpecCacheConc == ConcInit /\ [][ConcNext]_vars

---------------------------------------------------------------------------
\* calculate_indicators / calculate_all_indicators on a series held bar by bar.
\*
\* A bar is [open, high, low, close, volume].  A column is a sequence with one
\* entry per bar.  A rolling mean is carried multiplied by MAScale, which every
\* window divides, and is NaN while the window is not full.  An RSI entry is the
\* fraction <<num, den>>, 0/0 being NaN.  A BB_position entry is NaN, an
\* infinity, or the number 1/2 + (off / 20) / (4 std) with std^2 = dev / 380.
\* The values of the MACD, KD and other Bollinger columns are not carried;
\* cols.attached names every column the code attaches.

MAScale == 60
RSIWindow == 14
BBWindow == 20
ScenarioBars == 60

RSI_NaN == <<0, 0>>

SAColumns ==
    {"MA5", "MA10", "MA20", "MA30", "MA60", "MACD", "MACD_signal", "RSI",
     "BB_middle", "BB_upper", "BB_lower", "BB_position", "%K", "%D",
     "volume_ma5", "volume_ratio"}

SSAColumns == SAColumns \cup {"MACD_hist"}

Closes(bars) == [i \in 1..Len(bars) |-> bars[i].close]
Volumes(bars) == [i \in 1..Len(bars) |-> bars[i].volume]

RECURSIVE SeqSum(_, _, _)
SeqSum(x, lo, hi) == IF lo > hi THEN 0 ELSE x[hi] + SeqSum(x, lo, hi - 1)

RECURSIVE SumSquares(_, _, _)
SumSquares(x, lo, hi) ==
    IF lo > hi THEN 0 ELSE x[hi] * x[hi] + SumSquares(x, lo, hi - 1)

Sign(a) == IF a > 0 THEN 1 ELSE IF a < 0 THEN -1 ELSE 0

\* the sum over the window of w entries that ends at i
rolling_sum_leading(x, w, i) == SeqSum(x, 1, w)

rolling_sum(x, w, i) == SeqSum(x, i - w + 1, i)

\* x.rolling(window=w).mean(), times MAScale
rolling_mean(x, w) ==
    [i \in 1..Len(x) |->
        IF i < w THEN NaN ELSE rolling_sum(x, w, i) * (MAScale \div w)]

\* delta.where(delta > 0, 0) and -delta.where(delta < 0, 0): the first delta is
\* NaN, which both comparisons reject, so the first entry is 0
gain(x) ==
    [i \in 1..Len(x) |-> IF i > 1 /\ x[i] - x[i-1] > 0 THEN x[i] - x[i-1] ELSE 0]
loss(x) ==
    [i \in 1..Len(x) |-> IF i > 1 /\ x[i] - x[i-1] < 0 THEN x[i-1] - x[i] ELSE 0]

\* rs = gain / loss; RSI = 100 - 100 / (1 + rs):
\*   0 / 0 is NaN, g / 0 is inf and gives 100, otherwise 100 g / (g + l)
rsi_of(g, l) ==
    IF g = 0 /\ l = 0 THEN RSI_NaN
    ELSE IF l = 0 THEN <<100, 1>>
    ELSE <<100 * g, g + l>>

rsi(x) ==
    LET gs == gain(x)
        ls == loss(x)
    IN  [i \in 1..Len(x) |->
            IF i < RSIWindow THEN RSI_NaN
            ELSE rsi_of(rolling_sum(gs, RSIWindow, i), rolling_sum(ls, RSIWindow, i))]

\* (close - BB_lower) / (BB_upper - BB_lower) on a full window of sum S and
\* sum of squares Q: BB_middle = S / 20, bb_std^2 = (20 Q - S^2) / (20 * 19),
\* BB_upper - BB_lower = 4 bb_std; x / 0 is NaN for x = 0 and an infinity
\* otherwise
bb_position_of(c, S, Q) ==
    LET off == BBWindow * c - S
        dev == BBWindow * Q - S * S
    IN  IF dev = 0 /\ off = 0 THEN [kind |-> "nan"]
        ELSE IF dev = 0 THEN [kind |-> "inf", sign |-> Sign(off)]
        ELSE [kind |-> "num", off |-> off, dev |-> dev]

bb_position(x) ==
    [i \in 1..Len(x) |->
        IF i < BBWindow THEN [kind |-> "nan"]
        ELSE bb_position_of(x[i], SeqSum(x, i - BBWindow + 1, i),
                            SumSquares(x, i - BBWindow + 1, i))]

\* bb_position < 0.3:  off / 20 < -0.8 std
bb_below(p) ==
    \/ p.kind = "inf" /\ p.sign < 0
    \/ p.kind = "num" /\ p.off < 0 /\ 95 * p.off * p.off > 64 * p.dev

\* BB_position > 0.7:  off / 20 > 0.8 std
bb_above(p) ==
    \/ p.kind = "inf" /\ p.sign > 0
    \/ p.kind = "num" /\ p.off > 0 /\ 95 * p.off * p.off > 64 * p.dev

\* the columns the code attaches to a copy of the series
Enrich(bars, names) ==
    LET close == Closes(bars)
    IN  [attached |-> names,
         MA5 |-> rolling_mean(close, 5),
         MA10 |-> rolling_mean(close, 10),
         MA20 |-> rolling_mean(close, 20),
         MA30 |-> rolling_mean(close, 30),
         MA60 |-> rolling_mean(close, 60),
         RSI |-> rsi(close),
         BB_position |-> bb_position(close),
         volume_ma5 |-> rolling_mean(Volumes(bars), 5)]

\* <<the value returned, self.df afterwards>>
calculate_indicators_dropna(d) ==
    IF d.bars = <<>> \/ Len(d.bars) < MinBars THEN <<FALSE, d>>
    ELSE <<TRUE, [bars |-> SubSeq(d.bars, 5, Len(d.bars)),
                  cols |-> Enrich(SubSeq(d.bars, 5, Len(d.bars)), SAColumns)]>>

calculate_indicators(d) ==
    IF d.bars = <<>> \/ Len(d.bars) < MinBars THEN <<FALSE, d>>
    ELSE <<TRUE, [bars |-> d.bars, cols |-> Enrich(d.bars, SAColumns)]>>

calculate_all_indicators(d) ==
    IF d.bars = <<>> \/ Len(d.bars) < MinBars THEN <<FALSE, d>>
    ELSE <<TRUE, [bars |-> d.bars, cols |-> Enrich(d.bars, SSAColumns)]>>

\* what the trend scorers read of the latest bar and of df['MA5'].iloc[-6],
\* the close in the unit of the means
LatestTrendRow(bars, c) ==
    LET n == Len(bars)
    IN  [close |-> bars[n].close * MAScale,
         MA5 |-> c.MA5[n], MA10 |-> c.MA10[n], MA20 |-> c.MA20[n],
         MA5_6 |-> c.MA5[n - 5], has |-> TRUE]

\* the series the provider may answer: a shape, a length, and the last close
\* as the shape gives it, 10 lower or 10 higher
SeriesShapes == {"flat", "rising", "falling", "zigzag"}
LastMoves == {-10, 0, 10}
SeriesLengths == {0, MinBars - 1, MinBars} \cup (MinBars + 1 .. MaxBars)
                     \cup {ScenarioBars}

CloseAt(shape, n, i) ==
    CASE shape = "flat" -> 100
      [] shape = "rising" -> 100 + (i - 1)
      [] shape = "falling" -> 100 + (n - i)
      [] shape = "zigzag" -> 100 + 5 * (i % 2)

MkSeries(shape, n, move) ==
    LET close == [i \in 1..n |-> CloseAt(shape, n, i) + (IF i = n THEN move ELSE 0)]
    IN  [i \in 1..n |->
            LET open == IF i = 1 THEN close[1] ELSE close[i-1]
            IN  [open |-> open, high |-> Max(open, close[i]),
                 low |-> Min(open, close[i]), close |-> close[i],
                 volume |-> 1000 + 100 * (i % 3)]]

SeriesInputs ==
    { MkSeries(shape, n, move) :
        shape \in SeriesShapes, n \in SeriesLengths, move \in LastMoves }

\* an analyzer of either class, constructed on one of the series
IndInit ==
    /\ cls \in {"StockAnalyzer", "StockSignalAnalyzer"}
    /\ series \in SeriesInputs
    /\ cols = NoColumns
    /\ iret = [op |-> "none"]
    /\ source = [kind |-> "none"]
    /\ df = EmptyDF
    /\ ret = [op |-> "none", val |-> Nothing]
    /\ NoScore
    /\ NoBatch
    /\ NoCache
    /\ NoRealtime
    /\ NoFetch
    /\ NoConnections
    /\ NoMinutes

\* StockAnalyzer.calculate_indicators
SA_CalculateIndicators ==
    /\ cls = "StockAnalyzer"
    /\ \E r \in {calculate_indicators([bars |-> series, cols |-> cols])} :
          /\ series' = r[2].bars
          /\ cols' = r[2].cols
          /\ iret' = [op |-> "calculate_indicators", val |-> r[1]]
    /\ UNCHANGED <<avars, svars, bvars, cvars, rvars, fvars, nvars, mvars>>

\* StockSignalAnalyzer.calculate_all_indicators
SSA_CalculateAllIndicators ==
    /\ cls = "StockSignalAnalyzer"
    /\ \E r \in {calculate_all_indicators([bars |-> series, cols |-> cols])} :
          /\ series' = r[2].bars
          /\ cols' = r[2].cols
          /\ iret' = [op |-> "calculate_all_indicators", val |-> r[1]]
    /\ UNCHANGED <<avars, svars, bvars, cvars, rvars, fvars, nvars, mvars>>

IndNext == SA_CalculateIndicators \/ SSA_CalculateAllIndicators

SpecIndicators == IndInit /\ [][IndNext]_vars

---------------------------------------------------------------------------
\* _calculate_risk_metrics on the 'returns' column that _fetch_data attaches.
\*
\* A return is carried in percent; the closes of RiskInputs are positive before
\* the last bar and make every return a whole number of percent.  With m
\* returns of sum S and sum of squares Q, dev = m Q - S^2, so that
\*   stdev^2 = dev / (m (m - 1))       mean = S / m
\* A square root is never taken: volatility and the Sharpe ratio are carried
\* by their squares, the Sharpe ratio with its sign.

ReturnScale == 100
Annual == 252
MaxRiskBars == 21

\* df['close'].pct_change()
pct_change(x) ==
    [i \in 1..Len(x) |->
        IF i = 1 THEN NaN ELSE ((x[i] - x[i-1]) * ReturnScale) \div x[i-1]]

dropna(x) == SelectSeq(x, IsNum)

\* returns.std() > 0
std_positive_never(dev) == FALSE

std_positive(dev) == dev > 0

\* returns.mean() / returns.std() * np.sqrt(252) if returns.std() > 0 else 0:
\* sign * sqrt(Annual * num / den)
sharpe_ratio(S, dev, m) ==
    IF std_positive(dev) THEN [sign |-> Sign(S), num |-> S * S * (m - 1), den |-> m * dev]
    ELSE [sign |-> 0, num |-> 0, den |-> 1]

\* abs(drawdown.min() * 100), in hundredths of a percent: the cumulative
\* product of 1 + return on bar i is close[i] / close[1]
max_drawdown(close) ==
    LET peak(i) == CHOOSE p \in {close[j] : j \in 2..i} :
                       \A j \in 2..i : close[j] <= p
        fall(i) == IF peak(i) = 0 THEN NaN
                   ELSE ((peak(i) - close[i]) * 10000) \div peak(i)
    IN  CHOOSE d \in {fall(i) : i \in 2..Len(close)} :
            \A i \in 2..Len(close) : fall(i) <= d

\* volatility = returns.std() * sqrt(252) * 100, in percent:
\* volatility^2 = Annual * dev / (m (m - 1))
risk_level(dev, m) ==
    IF Annual * dev > 1600 * m * (m - 1) THEN "high"
    ELSE IF Annual * dev > 400 * m * (m - 1) THEN "medium"
    ELSE "low"

risk_metrics(bars) ==
    IF Len(bars) < MinRiskBars THEN [kind |-> "empty"]
    ELSE LET r == dropna(pct_change(Closes(bars)))
             m == Len(r)
             S == SeqSum(r, 1, m)
             dev == m * SumSquares(r, 1, m) - S * S
         IN  [kind |-> "metrics",
              volatility_sq |-> <<Annual * dev, m * (m - 1)>>,
              sharpe_ratio |-> sharpe_ratio(S, dev, m),
              max_drawdown |-> max_drawdown(Closes(bars)),
              risk_level |-> risk_level(dev, m)]

\* the series: closes of 100, the last three bars free
RiskLengths == {MinRiskBars - 1, MinRiskBars} \cup (MinRiskBars + 1 .. MaxRiskBars)

RiskCloses ==
    { [i \in 1..n |-> IF i = n THEN c ELSE IF i = n - 1 THEN b
                      ELSE IF i = n - 2 THEN a ELSE 100] :
        n \in RiskLengths, a \in {50, 100, 200}, b \in {50, 100, 200},
        c \in {0, 50, 100, 200} }

\* the bars of a sequence of closes
BarsOf(close) ==
    [i \in 1..Len(close) |->
        LET open == IF i = 1 THEN close[1] ELSE close[i-1]
        IN  [open |-> open, high |-> Max(open, close[i]),
             low |-> Min(open, close[i]), close |-> close[i],
             volume |-> 1000 + 100 * (i % 3)]]

RiskInputs == { BarsOf(close) : close \in RiskCloses }

\* an analyzer of either class, constructed on one of the series
RiskInit ==
    /\ cls \in {"StockAnalyzer", "StockSignalAnalyzer"}
    /\ series \in RiskInputs
    /\ cols = NoColumns
    /\ iret = [op |-> "none"]
    /\ source = [kind |-> "none"]
    /\ df = EmptyDF
    /\ ret = [op |-> "none", val |-> Nothing]
    /\ NoScore
    /\ NoBatch
    /\ NoCache
    /\ NoRealtime
    /\ NoFetch
    /\ NoConnections
    /\ NoMinutes

\* StockAnalyzer._calculate_risk_metrics
SA_RiskMetrics ==
    /\ cls = "StockAnalyzer"
    /\ iret' = [op |-> "risk_metrics", val |-> risk_metrics(series)]
    /\ UNCHANGED <<series, cols, avars, svars, bvars, cvars, rvars, fvars, nvars, mvars>>

\* StockSignalAnalyzer._calculate_risk_metrics
SSA_RiskMetrics ==
    /\ cls = "StockSignalAnalyzer"
    /\ iret' = [op |-> "risk_metrics", val |-> risk_metrics(series)]
    /\ UNCHANGED <<series, cols, avars, svars, bvars, cvars, rvars, fvars, nvars, mvars>>

RiskNext == SA_RiskMetrics \/ SSA_RiskMetrics

SpecRisk == RiskInit /\ [][RiskNext]_vars

---------------------------------------------------------------------------
\* StockAnalyzer._generate_realtime_signals on what get_realtime_data and
\* analyze returned.
\*
\* A kline entry carries the volume and the change_percent of a bar; the
\* realtime data is {'error': ...} or a dict with the kline_data list.

MinKlines == 3
MaxKlines == 4

KlineBars == [volume: {100, 150, 151}, change_percent: {-1, 0, 1}]

QuietBar == [volume |-> 100, change_percent |-> 0]

\* the lists of bars: only the last two are free
KlineLists ==
    {<<>>} \cup { <<b>> : b \in KlineBars }
        \cup { [i \in 1..n |-> IF i = n THEN b ELSE IF i = n - 1 THEN a ELSE QuietBar] :
                 n \in 2..MaxKlines, a \in {QuietBar}, b \in KlineBars }
        \cup { <<a, b>> : a \in KlineBars, b \in KlineBars }

RealtimeInputs ==
    {[kind |-> "error"]} \cup { [kind |-> "data", kline_data |-> k] : k \in KlineLists }

\* what analyze returns: the empty result, or a result with the verdict of its
\* confidence
DayInputs ==
    {empty_result(StockCode)}
        \cup { [kind |-> "populated", stock_code |-> StockCode, success |-> TRUE,
                confidence_score |-> c, action |-> Verdict(c)[2]] :
                 c \in {40, 50, 60, 80} }

\* the daily verdict decides among the realtime signals found
overall_signal_intraday_only(day, buys, sells) ==
    IF buys # <<>> THEN "BUY" ELSE IF sells # <<>> THEN "SELL" ELSE "HOLD"

overall_signal(day, buys, sells) ==
    IF day.success
    THEN IF day.action = "BUY" /\ Len(buys) > 0 THEN "BUY"
         ELSE IF day.action = "SELL" /\ Len(sells) > 0 THEN "SELL"
         ELSE "HOLD"
    ELSE "HOLD"

NoRealtimeSignals ==
    [buy_signals |-> <<>>, sell_signals |-> <<>>, warning_signals |-> <<>>,
     overall_signal |-> "HOLD"]

generate_realtime_signals(rt, day) ==
    IF rt.kind = "error" \/ rt.kline_data = <<>> THEN NoRealtimeSignals
    ELSE IF Len(rt.kline_data) < MinKlines THEN NoRealtimeSignals
    ELSE LET latest == rt.kline_data[Len(rt.kline_data)]
             prev == rt.kline_data[Len(rt.kline_data) - 1]
             \* latest['volume'] > prev['volume'] * 1.5
             surge == 2 * latest.volume > 3 * prev.volume
             buys == IF surge /\ latest.change_percent > 0
                     THEN <<"volume_surge_up">> ELSE <<>>
             sells == IF surge /\ latest.change_percent < 0
                      THEN <<"volume_surge_down">> ELSE <<>>
         IN  [buy_signals |-> buys, sell_signals |-> sells,
              warning_signals |-> <<>>,
              overall_signal |-> overall_signal(day, buys, sells)]

SignalsInit ==
    /\ realtime_data \in RealtimeInputs
    /\ day_analysis \in DayInputs
    /\ rt_signals = Nothing
    /\ minute_feed = <<>>
    /\ source = [kind |-> "none"]
    /\ cls = "StockAnalyzer"
    /\ df = EmptyDF
    /\ ret = [op |-> "none", val |-> Nothing]
    /\ NoScore
    /\ NoBatch
    /\ NoCache
    /\ NoSeries
    /\ NoFetch
    /\ NoConnections
    /\ NoMinutes

\* _generate_realtime_signals(realtime_data, day_analysis)
GenerateRealtimeSignals ==
    /\ rt_signals' = generate_realtime_signals(realtime_data, day_analysis)
    /\ UNCHANGED <<realtime_data, day_analysis, minute_feed,
                   avars, svars, bvars, cvars, ivars, fvars, nvars, mvars>>

SignalsNext == GenerateRealtimeSignals

SpecSignals == SignalsInit /\ [][SignalsNext]_vars

---------------------------------------------------------------------------
\* BatchStockAnalyzer.analyze_with_realtime

MaxRealtimeStocks == 2
RealtimeCap == 50

SurgeUp ==
    <<QuietBar, QuietBar, [volume |-> 151, change_percent |-> 1]>>
SurgeDown ==
    <<QuietBar, QuietBar, [volume |-> 151, change_percent |-> -1]>>

\* what get_price_min_tx answers: it raises, or a DataFrame of minute bars
MinuteSources ==
    { [kind |-> "raise"], [kind |-> "df", kline_data |-> <<>>],
      [kind |-> "df", kline_data |-> SurgeUp],
      [kind |-> "df", kline_data |-> SurgeDown] }

\* get_realtime_data: an empty DataFrame and every exception give {'error': ...}
get_realtime_data(msrc) ==
    IF msrc.kind = "raise" \/ msrc.kline_data = <<>> THEN [kind |-> "error"]
    ELSE [kind |-> "data", kline_data |-> msrc.kline_data]

\* analyze_realtime on the analyzer's df as it is: analyze is called before
\* anything has attached the indicator columns
analyze_realtime(code, d, msrc) ==
    LET rt == get_realtime_data(msrc)
        day == SA_analyze(code, d)
    IN  IF rt.kind = "error" THEN [kind |-> "error"]
        ELSE IF day.kind = "raised" THEN Raised
        ELSE [kind |-> "combined", stock_code |-> code, realtime_data |-> rt,
              day_analysis |-> IF day.success THEN day ELSE Nothing,
              signals |-> generate_realtime_signals(rt, day)]

\* _calculate_combined_confidence
calculate_combined_confidence(rr, day) ==
    LET bonus == IF rr.kind = "combined"
                 THEN Len(rr.signals.buy_signals) * 5 - Len(rr.signals.sell_signals) * 3
                 ELSE 0
    IN  Max(0, Min(day.confidence_score + bonus, MaxConfidence))

\* the body of the loop for one stock code
WithRealtimeOne(code, src, msrc) ==
    LET d0 == SA_fetch_data(src)
        rr == analyze_realtime(code, d0, msrc)
        ci == SA_calculate_indicators(d0)
        day == SA_analyze(code, ci[2])
    IN  IF rr.kind = "raised" THEN [kind |-> "exception"]
        ELSE IF TooShort(d0) THEN [kind |-> "skip"]
        ELSE IF ~ci[1] THEN [kind |-> "skip"]
        ELSE IF day.kind = "raised" THEN [kind |-> "exception"]
        ELSE IF day.success
        THEN [kind |-> "append",
              result |-> [stock_code |-> code, realtime_analysis |-> rr,
                          day_analysis |-> day,
                          combined_confidence |-> calculate_combined_confidence(rr, day)]]
        ELSE [kind |-> "skip"]

\* for stock_code in stock_codes[:50], from position i on
RECURSIVE with_realtime_loop(_, _, _, _)
with_realtime_loop(list, fd, mfd, i) ==
    IF i > Min(Len(list), RealtimeCap) THEN <<>>
    ELSE LET one == WithRealtimeOne(list[i], fd[i], mfd[i])
         IN  (IF one.kind = "append" THEN <<one.result>> ELSE <<>>)
                 \o with_realtime_loop(list, fd, mfd, i + 1)

analyze_with_realtime(list, fd, mfd) == with_realtime_loop(list, fd, mfd, 1)

RealtimeLists == UNION { [1..n -> Symbols] : n \in 0..MaxRealtimeStocks }

BatchRealtimeInit ==
    /\ stock_list \in RealtimeLists
    /\ feed \in [1..Len(stock_list) -> BatchSources]
    /\ minute_feed \in [1..Len(stock_list) -> MinuteSources]
    /\ min_conf = DefaultMinConfidence
    /\ results = <<>>
    /\ bret = [op |-> "none", val |-> <<>>, raised |-> FALSE]
    /\ fetched = <<>>
    /\ realtime_data = Nothing
    /\ day_analysis = Nothing
    /\ rt_signals = Nothing
    /\ source = [kind |-> "none"]
    /\ cls = "none"
    /\ df = EmptyDF
    /\ ret = [op |-> "none", val |-> Nothing]
    /\ NoScore
    /\ NoCache
    /\ NoSeries
    /\ NoFetch
    /\ NoConnections
    /\ NoMinutes

\* BatchStockAnalyzer.analyze_with_realtime()
AnalyzeWithRealtime ==
    /\ \E recs \in {analyze_with_realtime(stock_list, feed, minute_feed)} :
          bret' = [op |-> "analyze_with_realtime", val |-> recs, raised |-> FALSE]
    /\ fetched' = FirstN(stock_list, RealtimeCap)
    /\ UNCHANGED <<stock_list, feed, min_conf, results, realtime_data,
                   day_analysis, rt_signals, minute_feed,
                   avars, svars, cvars, ivars, fvars, nvars, mvars>>

BatchRealtimeNext == AnalyzeWithRealtime

SpecBatchRealtime == BatchRealtimeInit /\ [][BatchRealtimeNext]_vars

---------------------------------------------------------------------------
\* StockSignalAnalyzer objects that share the module's cache (src/app2.py).
\*
\* A DataFrame is an object of the heap: the cache and the analyzers hold
\* references to it, so that a change made through one reference is seen
\* through every other one.  cache.get and cache.set run under the lock of the
\* CacheManager and are single steps; an analyzer can be interrupted between
\* cache.get, get_price and cache.set.

MaxObjects == 4

Analyzers == {"a1", "a2"}
FetchKey == "data_sh600519_120"

ObjNames == <<"df1", "df2", "df3", "df4", "df5", "df6">>

\* the object a constructor or a copy creates next
NewObj(h) == ObjNames[Cardinality(DOMAIN h) + 1]
CanAllocate(h) == Cardinality(DOMAIN h) < MaxObjects

BaseColumns == {"open", "close", "high", "low", "volume"}
ReturnColumns == {"returns", "log_returns"}

\* what get_price answers: it raises, or a DataFrame of n bars
FetchAnswers ==
    { [kind |-> "raise"], [kind |-> "df", n |-> 0],
      [kind |-> "df", n |-> MinBars - 1], [kind |-> "df", n |-> MinBars] }

\* pd.DataFrame()
EmptyFrame == [n |-> 0, columns |-> {}]

\* the answer of get_price, and the columns _fetch_data adds to a non-empty one
fetched_frame(ans) ==
    [n |-> ans.n,
     columns |-> IF ans.n > 0 THEN BaseColumns \cup ReturnColumns ELSE BaseColumns]

\* calculate_all_indicators on the object ref: <<the value returned, the heap
\* afterwards, self.df afterwards>>
calculate_all_indicators_in_place(h, ref, new) ==
    IF h[ref].n = 0 \/ h[ref].n < MinBars THEN <<FALSE, h, ref>>
    ELSE <<TRUE, Store(h, ref, [h[ref] EXCEPT !.columns = @ \cup SSAColumns]), ref>>

\* df = self.df.copy(); the columns are attached to df; self.df = df
calculate_all_indicators_on(h, ref, new) ==
    IF h[ref].n = 0 \/ h[ref].n < MinBars THEN <<FALSE, h, ref>>
    ELSE <<TRUE, Store(h, new, [h[ref] EXCEPT !.columns = @ \cup SSAColumns]), new>>

FetchLocals == [calculated |-> "no", analyzed |-> "no"]

FetchInit ==
    /\ ttl \in 1..MaxTTL
    /\ cache = <<>>
    /\ lock = "free"
    /\ now = 0
    /\ cret = [op |-> "none"]
    /\ last_set = <<>>
    /\ prev_set = <<>>
    /\ pc = [a \in Analyzers |-> "init"]
    /\ loc = [a \in Analyzers |-> FetchLocals]
    /\ heap = <<>>
    /\ selfdf = [a \in Analyzers |-> None]
    /\ price_calls = <<>>
    /\ stored = <<>>
    /\ source = [kind |-> "none"]
    /\ cls = "StockSignalAnalyzer"
    /\ df = EmptyDF
    /\ ret = [op |-> "none", val |-> Nothing]
    /\ NoScore
    /\ NoBatch
    /\ NoSeries
    /\ NoRealtime
    /\ NoConnections
    /\ NoMinutes

FetchQuiet ==
    UNCHANGED <<ttl, lock, now, cret, last_set, prev_set,
                avars, svars, bvars, ivars, rvars, nvars, mvars>>

\* _fetch_data: cached_data = cache.get(cache_key); a hit becomes self.df
FetchLookup(a) ==
    /\ pc[a] = "init"
    /\ \E g \in {cache_get(cache, FetchKey, now, ttl)} :
          /\ cache' = g[2]
          /\ IF g[1] # None
             THEN selfdf' = [selfdf EXCEPT ![a] = g[1]] /\ Goto(a, "ready")
             ELSE selfdf' = selfdf /\ Goto(a, "miss")
    /\ UNCHANGED <<heap, price_calls, stored, loc>>
    /\ FetchQuiet

\* self.df = get_price(...): an exception leaves an empty DataFrame, an empty
\* answer is kept and not stored, a non-empty one gets its return columns
FetchCall(a) ==
    /\ pc[a] = "miss"
    /\ CanAllocate(heap)
    /\ \E ans \in FetchAnswers :
          /\ price_calls' =
                 Store(price_calls, FetchKey,
                       (IF FetchKey \in DOMAIN price_calls
                        THEN price_calls[FetchKey] ELSE <<>>) \o <<ans>>)
          /\ heap' = Store(heap, NewObj(heap),
                           IF ans.kind = "raise" THEN EmptyFrame
                           ELSE fetched_frame(ans))
          /\ IF ans.kind = "df" /\ ans.n > 0
             THEN Goto(a, "fetched") ELSE Goto(a, "ready")
    /\ selfdf' = [selfdf EXCEPT ![a] = NewObj(heap)]
    /\ UNCHANGED <<cache, stored, loc>>
    /\ FetchQuiet

\* cache.set(cache_key, self.df)
FetchStore(a) ==
    /\ pc[a] = "fetched"
    /\ cache' = cache_set(cache, FetchKey, selfdf[a], now)
    /\ stored' = Store(stored, FetchKey, heap[selfdf[a]])
    /\ Goto(a, "ready")
    /\ UNCHANGED <<heap, selfdf, price_calls, loc>>
    /\ FetchQuiet

\* StockSignalAnalyzer.calculate_all_indicators
FetchCalculate(a) ==
    /\ pc[a] = "ready"
    /\ CanAllocate(heap)
    /\ \E r \in {calculate_all_indicators_on(heap, selfdf[a], NewObj(heap))} :
          /\ heap' = r[2]
          /\ selfdf' = [selfdf EXCEPT ![a] = r[3]]
          /\ loc' = [loc EXCEPT ![a].calculated = IF r[1] THEN "True" ELSE "False"]
    /\ UNCHANGED <<cache, price_calls, stored, pc>>
    /\ FetchQuiet

\* StockSignalAnalyzer.analyze: self.df is only read
FetchAnalyze(a) ==
    /\ pc[a] = "ready"
    /\ loc' = [loc EXCEPT ![a].analyzed =
                   IF heap[selfdf[a]].n = 0 \/ heap[selfdf[a]].n < MinBars
                   THEN "empty" ELSE "populated"]
    /\ UNCHANGED <<cache, heap, selfdf, price_calls, stored, pc>>
    /\ FetchQuiet

FetchNext ==
    \/ Tick
    \/ \E a \in Analyzers : FetchLookup(a)
    \/ \E a \in Analyzers : FetchCall(a)
    \/ \E a \in Analyzers : FetchStore(a)
    \/ \E a \in Analyzers : FetchCalculate(a)
    \/ \E a \in Analyzers : FetchAnalyze(a)

SpecFetch == FetchInit /\ [][FetchNext]_vars

---------------------------------------------------------------------------
\* ConnectionManager (src/mods/news_monitor.py)
\*
\* broadcast_to_subscribers is followed from its first to its last iteration
\* with no other coroutine running in between: the for loop iterates over the
\* list object that disconnect removes from, and a list iterator is an index
\* into the list as it is at each step.

MaxClients == 2

Clients == {"c" \o ToString(i) : i \in 1..MaxClients}

\* list.remove(x): the first occurrence is removed
RECURSIVE RemoveFirst(_, _)
RemoveFirst(seq, x) ==
    IF seq = <<>> THEN <<>>
    ELSE IF Head(seq) = x THEN Tail(seq)
    ELSE <<Head(seq)>> \o RemoveFirst(Tail(seq), x)

\* a manager: [active, subs, got]
\* disconnect(client_id)
disconnect(m, c) ==
    [m EXCEPT !.active = [x \in DOMAIN @ \ {c} |-> @[x]],
              !.subs = [s \in DOMAIN @ |->
                           IF c \in Elements(@[s]) THEN RemoveFirst(@[s], c) ELSE @[s]]]

\* send_personal_message(message, client_id): a send that raises disconnects
\* the client
send_personal_message(m, c) ==
    IF c \in DOMAIN m.active
    THEN IF m.active[c] = "ok" THEN [m EXCEPT !.got[c] = @ + 1]
         ELSE disconnect(m, c)
    ELSE m

\* for client_id in self.stock_subscriptions[stock_code], the iterator at
\* index i of the list as it is now
RECURSIVE broadcast_loop(_, _, _)
broadcast_loop(m, s, i) ==
    IF i > Len(m.subs[s]) THEN m
    ELSE broadcast_loop(send_personal_message(m, m.subs[s][i]), s, i + 1)

broadcast_to_subscribers(m, s) ==
    IF s \in DOMAIN m.subs THEN broadcast_loop(m, s, 1) ELSE m

\* subscribe(client_id, stock_code)
subscribe(m, c, s) ==
    IF c \in DOMAIN m.active
    THEN LET list == IF s \in DOMAIN m.subs THEN m.subs[s] ELSE <<>>
         IN  [m EXCEPT !.subs = Store(@, s, IF c \in Elements(list) THEN list
                                            ELSE Append(list, c))]
    ELSE m

\* unsubscribe(client_id, stock_code)
unsubscribe(m, c, s) ==
    IF s \in DOMAIN m.subs /\ c \in Elements(m.subs[s])
    THEN [m EXCEPT !.subs[s] = RemoveFirst(@, c)]
    ELSE m

Manager == [active |-> active_connections, subs |-> stock_subscriptions,
            got |-> [c \in Clients |-> 0]]

Becomes(m) ==
    /\ active_connections' = m.active
    /\ stock_subscriptions' = m.subs

NewsQuiet == UNCHANGED <<avars, svars, bvars, cvars, ivars, rvars, fvars, mvars>>

NewsInit ==
    /\ active_connections = <<>>
    /\ stock_subscriptions = <<>>
    /\ delivered = [c \in Clients |-> 0]
    /\ nret = [op |-> "none"]
    /\ source = [kind |-> "none"]
    /\ cls = "none"
    /\ df = EmptyDF
    /\ ret = [op |-> "none", val |-> Nothing]
    /\ NoScore
    /\ NoBatch
    /\ NoCache
    /\ NoSeries
    /\ NoRealtime
    /\ NoFetch
    /\ NoMinutes

\* connect(websocket, client_id), with a websocket that will accept the sends
\* or one whose sends raise
Connect ==
    /\ \E c \in Clients, health \in {"ok", "broken"} :
          /\ active_connections' = Store(active_connections, c, health)
          /\ nret' = [op |-> "connect", client |-> c]
    /\ UNCHANGED <<stock_subscriptions, delivered>>
    /\ NewsQuiet

Disconnect ==
    /\ \E c \in Clients :
          /\ Becomes(disconnect(Manager, c))
          /\ nret' = [op |-> "disconnect", client |-> c]
    /\ UNCHANGED delivered
    /\ NewsQuiet

Subscribe ==
    /\ \E c \in Clients, s \in Symbols :
          /\ Becomes(subscribe(Manager, c, s))
          /\ nret' = [op |-> "subscribe", client |-> c, stock |-> s]
    /\ UNCHANGED delivered
    /\ NewsQuiet

Unsubscribe ==
    /\ \E c \in Clients, s \in Symbols :
          /\ Becomes(unsubscribe(Manager, c, s))
          /\ nret' = [op |-> "unsubscribe", client |-> c, stock |-> s]
    /\ UNCHANGED delivered
    /\ NewsQuiet

\* broadcast_to_subscribers(stock_code, message)
Broadcast ==
    /\ \E s \in Symbols :
          \E m \in {broadcast_to_subscribers(Manager, s)} :
              /\ Becomes(m)
              /\ delivered' = m.got
              /\ nret' = [op |-> "broadcast", stock |-> s,
                          subscribers |-> IF s \in DOMAIN stock_subscriptions
                                          THEN stock_subscriptions[s] ELSE <<>>,
                          accepting |-> {c \in DOMAIN active_connections :
                                             active_connections[c] = "ok"}]
    /\ NewsQuiet

NewsNext == Connect \/ Disconnect \/ Subscribe \/ Unsubscribe \/ Broadcast

SpecNews == NewsInit /\ [][NewsNext]_vars

---------------------------------------------------------------------------
\* get_2min_data (src/mods/stock_analyzer.py)
\*
\* A 1-minute bar is [t, open, high, low, close, volume], t its minute.

MaxMinutes == 4
MaxMinuteBars == 7

\* need_1min_count = total_minutes * 2 + 10
need_1min_count(total) == total * 2 + 10

MinuteBar(t) ==
    [t |-> t, open |-> 100 + t, high |-> 103 + 2 * (t % 2), low |-> 99 - (t % 3),
     close |-> 101 + t, volume |-> 10 * t]

\* what the provider answers: it raises, or at most count bars, oldest or
\* newest first
MinuteAnswers(count) ==
    {[kind |-> "raise"]}
        \cup { [kind |-> "df", bars |-> [i \in 1..n |-> MinuteBar(i)]] :
                 n \in 0..Min(count, MaxMinuteBars) }
        \cup { [kind |-> "df", bars |-> [i \in 1..n |-> MinuteBar(n + 1 - i)]] :
                 n \in 2..Min(count, MaxMinuteBars) }

\* df_1min.sort_index()
sort_index(bars) ==
    [p \in 1..Len(bars) |->
        CHOOSE b \in Elements(bars) :
            Cardinality({x \in Elements(bars) : x.t < b.t}) = p - 1]

two_min_bar(bar1, bar2) ==
    [t |-> bar2.t, open |-> bar1.open, close |-> bar2.close,
     high |-> Max(bar1.high, bar2.high), low |-> Min(bar1.low, bar2.low),
     volume |-> bar1.volume + bar2.volume]

\* for i in range(0, len(df_sorted) - 1, 2): the bars at i and i + 1
aggregate(sorted) ==
    [j \in 1..(Len(sorted) \div 2) |-> two_min_bar(sorted[2 * j - 1], sorted[2 * j])]

\* seq[-k:] of Python: the last k elements, and the whole list for k = 0
last_slice(seq, k) ==
    IF k = 0 THEN seq ELSE SubSeq(seq, Len(seq) - k + 1, Len(seq))

get_2min_data(ans, total) ==
    IF ans.kind = "raise" THEN [kind |-> "error", data |-> <<>>]
    ELSE IF ans.bars = <<>> THEN [kind |-> "error", data |-> <<>>]
    ELSE LET two_min_data == aggregate(sort_index(ans.bars))
             recent_data == last_slice(two_min_data,
                                       Min(Len(two_min_data), total \div 2))
         IN  [kind |-> "data", data_count |-> Len(recent_data),
              time_period_minutes |-> Len(recent_data) * 2,
              kline_data |-> recent_data]

MinutesInit ==
    /\ total_minutes \in 0..MaxMinutes
    /\ minute_bars \in MinuteAnswers(need_1min_count(total_minutes))
    /\ two_min = Nothing
    /\ source = [kind |-> "none"]
    /\ cls = "none"
    /\ df = EmptyDF
    /\ ret = [op |-> "none", val |-> Nothing]
    /\ NoScore
    /\ NoBatch
    /\ NoCache
    /\ NoSeries
    /\ NoRealtime
    /\ NoFetch
    /\ NoConnections

\* get_2min_data(stock_code, total_minutes)
Get2MinData ==
    /\ two_min' = get_2min_data(minute_bars, total_minutes)
    /\ UNCHANGED <<minute_bars, total_minutes,
                   avars, svars, bvars, cvars, ivars, rvars, fvars, nvars>>

MinutesNext == Get2MinData

SpecMinutes == MinutesInit /\ [][MinutesNext]_vars

---------------------------------------------------------------------------
\* Properties of the single-symbol analysis (SpecAnalyze)

\* the provider's series has fewer than 30 bars, is empty, or the fetch failed
ShortSource == source.kind # "df" \/ source.n < MinBars

\* C1: for a daily series with fewer than 30 bars (an empty series and a failed
\* fetch included) analyze and analyze_stock_simple return the empty-result
\* variant: an error reason, success False, no analysis; they never return a
\* populated result and never raise.
C1_ShortSeriesEmptyResult ==
    (ret.op \in {"analyze", "analyze_stock_simple"} /\ ShortSource)
        => /\ ret.val.kind = "empty"
           /\ ret.val.success = FALSE
           /\ "error" \in DOMAIN ret.val
           /\ "confidence_score" \notin DOMAIN ret.val

\* analyze has answered for a series one bar short of the minimum
C1_Witness ==
    /\ ret.op = "analyze"
    /\ source.kind = "df" /\ source.n = MinBars - 1
    /\ df.n = MinBars - 1
    /\ ret.val.kind = "empty"

---------------------------------------------------------------------------
\* Properties of the scorer and the confidence (SpecScore)

Scored == cls \in {"StockAnalyzer", "StockSignalAnalyzer"}

\* C2: for every combination of category raw scores the scorer produces, the
\* confidence of _calculate_confidence lies in 0..100, in both analyzers.
C2_ConfidenceInRange ==
    Scored => (confidence >= 0 /\ confidence <= MaxConfidence)

\* the capped categories add up to more than 100 and the ceiling applies
C2_Witness ==
    /\ cls = "StockAnalyzer"
    /\ CappedSum(signals, Categories) > MaxConfidence
    /\ confidence = MaxConfidence

\* C3: each category contributes exactly min(raw score, 30):
\* confidence = min(100, sum over the five categories of min(score, 30)),
\* in both analyzers.
C3_CategoryContribution ==
    Scored => confidence = Min(MaxConfidence, CappedSum(signals, Categories))

---------------------------------------------------------------------------
\* Properties of the batch analysis (SpecBatch)

\* what the analysis of the symbol at position i of the list yields by itself
Analysis(i) ==
    SA_analyze(stock_list[i], SA_calculate_indicators(SA_fetch_data(feed[i]))[2])

Analyses == [i \in 1..Len(stock_list) |-> Analysis(i)]

Clears(r, t) == r.kind = "populated" /\ r.confidence_score >= t

\* the positions whose analysis succeeds with a confidence of at least t
ClearingOf(an, t) == {i \in DOMAIN an : Clears(an[i], t)}

Clearing(t) == ClearingOf(Analyses, t)

\* their results in the order of the input list
Survivors(an, t) == SelectSeq(an, LAMBDA r : Clears(r, t))

WithConfidence(seq, c) == SelectSeq(seq, LAMBDA r : r.confidence_score = c)

Occurrences(seq, r) == Cardinality({k \in 1..Len(seq) : seq[k] = r})

AfterAnalyzeAll == bret.op = "analyze_all"

\* C4: the list analyze_all / batch_analyze_stocks returns is ordered by
\* non-increasing confidence, and results of equal confidence keep the relative
\* order of their symbols in the input list.
C4_SortedStable ==
    AfterAnalyzeAll =>
        /\ \A k \in 1..(Len(bret.val) - 1) :
               bret.val[k].confidence_score >= bret.val[k + 1].confidence_score
        /\ LET surv == Survivors(Analyses, min_conf)
           IN  \A c \in {surv[k].confidence_score : k \in 1..Len(surv)}
                       \cup {bret.val[k].confidence_score : k \in 1..Len(bret.val)} :
                   WithConfidence(bret.val, c) = WithConfidence(surv, c)

\* a tie between two different symbols, behind a stronger symbol that came last
C4_Witness ==
    /\ bret.op = "analyze_all"
    /\ Len(stock_list) = 3 /\ Len(bret.val) = 3
    /\ bret.val[1] = Analysis(3)
    /\ bret.val[2].confidence_score = bret.val[3].confidence_score
    /\ bret.val[1].confidence_score > bret.val[2].confidence_score
    /\ bret.val[2].stock_code # bret.val[3].stock_code

C6_ExactlyTheClearing ==
    AfterAnalyzeAll =>
        /\ \A k \in 1..Len(bret.val) :
               /\ bret.val[k].kind = "populated"
               /\ bret.val[k].success
               /\ bret.val[k].confidence_score >= min_conf
        /\ LET an == Analyses
               clearing == ClearingOf(an, min_conf)
           IN  /\ Len(bret.val) = Cardinality(clearing)
               /\ \A i \in clearing :
                      Occurrences(bret.val, an[i])
                          = Cardinality({j \in clearing : an[j] = an[i]})

\* a result exactly at the threshold is kept, a successful one below it is not
C6_Witness ==
    /\ bret.op = "analyze_all"
    /\ \E k \in 1..Len(bret.val) : bret.val[k].confidence_score = min_conf
    /\ \E i \in 1..Len(stock_list) :
           Analysis(i).kind = "populated" /\ Analysis(i).confidence_score < min_conf

\* C7: a failure for one symbol (the fetch raises or is empty, fewer than 30
\* bars, an exception during the analysis) makes analyze_all skip that symbol
\* only: it never raises to its caller, every symbol of the list is processed,
\* and the symbols that clear the threshold are returned.
C7_FailureIsolated ==
    AfterAnalyzeAll =>
        /\ ~bret.raised
        /\ fetched = stock_list
        /\ LET an == Analyses
           IN  \A i \in ClearingOf(an, min_conf) :
                   \E k \in 1..Len(bret.val) : bret.val[k] = an[i]

\* an exception in the analysis of the first symbol, a failed fetch for the
\* second, and the third one returned
C7_Witness ==
    /\ bret.op = "analyze_all"
    /\ Len(stock_list) = 3
    /\ Analysis(1).kind = "raised"
    /\ feed[2].kind = "raise"
    /\ 3 \in Clearing(min_conf)
    /\ bret.val = <<Analysis(3)>>

---------------------------------------------------------------------------
\* Properties of the cache (SpecCache, SpecCacheConc)

\* the cache without key k
Others(c, k) == [x \in DOMAIN c \ {k} |-> c[x]]

\* C8: after set(k, v) at time t0, a get(k) at a time t with t - t0 < ttl
\* returns v; a get(k) at a time t with t - t0 >= ttl (no set(k, .) in
\* between) returns None and leaves no entry for k; and a get(k) leaves the
\* entries of every other key as they were.
C8_GetWithinLifetime ==
    /\ [](cret.op = "get" /\ cret.key \in DOMAIN last_set =>
            IF cret.at - last_set[cret.key][2] < ttl
            THEN cret.val = last_set[cret.key][1]
            ELSE cret.val = None /\ cret.key \notin DOMAIN cache)
    /\ [][cret'.op = "get" => Others(cache', cret'.key) = Others(cache, cret'.key)]_vars

\* a get found the entry of its key expired and removed it, and the other
\* key's entry is still there
C8_Witness ==
    /\ cret.op = "get"
    /\ cret.key \in DOMAIN last_set
    /\ ttl > 0
    /\ cret.at - last_set[cret.key][2] >= ttl
    /\ cret.val = None
    /\ cret.key \notin DOMAIN cache
    /\ DOMAIN cache # {}

\* C9: set(k, v2) on a key that holds v1 replaces the entry by (v2, time of
\* this set); a later get(k) is answered from the second set alone: v2
\* while its age since the second set is below ttl, None afterwards, and
\* never the overwritten v1.
C9_SetOverwrites ==
    /\ cret.op = "set" =>
          cret.key \in DOMAIN cache /\ cache[cret.key] = <<cret.val, cret.at>>
    /\ cret.op = "get" /\ cret.key \in DOMAIN prev_set =>
          /\ cret.at - last_set[cret.key][2] < ttl => cret.val = last_set[cret.key][1]
          /\ cret.at - last_set[cret.key][2] >= ttl => cret.val = None
          /\ prev_set[cret.key][1] # last_set[cret.key][1] =>
                cret.val # prev_set[cret.key][1]

\* a get returned the second value at a time when the first set's lifetime
\* had run out and the second set's had not
C9_Witness ==
    /\ cret.op = "get"
    /\ cret.key \in DOMAIN prev_set
    /\ prev_set[cret.key][1] # last_set[cret.key][1]
    /\ cret.at - prev_set[cret.key][2] >= ttl
    /\ cret.at - last_set[cret.key][2] < ttl
    /\ cret.val = last_set[cret.key][1]

\* C10: with get and set called from several threads, at most one thread is
\* inside a with-self.lock block; the entry a get has read is still the
\* entry of its key while the get compares its age and when it deletes it,
\* so an eviction never removes an entry stored after the get's read; and a
\* get that returns a value returns the value of the latest completed set of
\* its key, with the timestamp of that set and an age below ttl.
C10_LockSerializes ==
    /\ Cardinality({t \in DOMAIN pc : pc[t] \in Holding}) <= 1
    /\ \A t \in DOMAIN pc :
          /\ pc[t] \in {"get_time", "get_del"} =>
                /\ loc[t].key \in DOMAIN cache
                /\ cache[loc[t].key] = <<loc[t].data, loc[t].timestamp>>
          /\ loc[t].result # "KeyError"
          /\ pc[t] = "get_exit" /\ loc[t].result # None =>
                /\ loc[t].key \in DOMAIN last_set
                /\ last_set[loc[t].key] = <<loc[t].result, loc[t].timestamp>>
                /\ loc[t].at - loc[t].timestamp < ttl

\* one thread is about to evict the expired entry it read while another
\* thread waits for the lock to set the same key
C10_Witness ==
    \E t \in DOMAIN pc, u \in DOMAIN pc :
        /\ pc[t] = "get_del"
        /\ pc[u] = "set_lock"
        /\ loc[u].key = loc[t].key

---------------------------------------------------------------------------
\* Properties of the results of analyze (SpecScore)

\* the result of the latest analyze call
Latest == analyses[Len(analyses)]

Answered == analyses # <<>> /\ Latest.kind = "populated"

\* C11: the verdict of a populated result follows from its confidence alone:
\* >= 75 strong buy / BUY / medium position, 60..75 buy / BUY / light position,
\* 45..60 watch / HOLD / no position, below 45 avoid / SELL / no position; so
\* the action is BUY iff confidence >= 60 and SELL iff confidence < 45.
C11_VerdictMapping ==
    Answered =>
        LET c == Latest.confidence_score
            v == <<Latest.signal, Latest.action, Latest.position_suggestion>>
        IN  /\ c = confidence
            /\ c >= 75 => v = <<"strong_buy", "BUY", "medium_30_50">>
            /\ (c >= 60 /\ c < 75) => v = <<"buy", "BUY", "light_20_30">>
            /\ (c >= 45 /\ c < 60) => v = <<"watch", "HOLD", "wait">>
            /\ c < 45 => v = <<"avoid", "SELL", "none">>
            /\ Latest.action = "BUY" <=> c >= 60
            /\ Latest.action = "SELL" <=> c < 45

\* a result whose confidence is exactly 60, the lower end of the buy band
C11_Witness ==
    /\ Answered
    /\ Latest.confidence_score = 60
    /\ Latest.signal = "buy"

Candle == <<snap.open, snap.high, snap.low, snap.close>>

Flagged == "hammer" \in Elements(signals.patterns.patterns)

\* C13 as stated: the bar open 10.00, high 10.05, low 9.50, close 9.95 as the
\* latest bar is flagged as a hammer, with a patterns score of at least 10
\* (read for StockSignalAnalyzer, the analyzer that looks for patterns).
C13_ScenarioBarIsHammer ==
    (cls = "StockSignalAnalyzer" /\ Candle = <<1000, 1005, 950, 995>>)
        => (Flagged /\ signals.patterns.score >= 10)

\* C13 amended: that bar is not flagged by either analyzer, its upper shadow
\* (0.05) is not below half its body (0.025); the same bar with a high of 10.02
\* is flagged by StockSignalAnalyzer with a patterns score of at least 10;
\* StockAnalyzer reports no pattern at all.
C13_HammerNeedsShortUpperShadow ==
    /\ (Scored /\ Candle = <<1000, 1005, 950, 995>>) => ~Flagged
    /\ (cls = "StockSignalAnalyzer" /\ Candle = <<1000, 1002, 950, 995>>)
           => (Flagged /\ signals.patterns.score >= 10)
    /\ cls = "StockAnalyzer" => signals.patterns.patterns = <<>>

\* StockSignalAnalyzer has scored the scenario bar and found no pattern
C13_Witness ==
    /\ cls = "StockSignalAnalyzer"
    /\ Candle = <<1000, 1005, 950, 995>>
    /\ signals.patterns.patterns = <<>>
    /\ signals.patterns.score = 0

\* the order in which the code tests the conditions of a category
EvaluationOrder ==
    IF cls = "StockAnalyzer"
    THEN [trend |-> <<"price_above_MA20", "MA_bullish_alignment">>,
          momentum |-> <<"RSI_healthy", "RSI_oversold", "MACD_golden_cross">>,
          volume |-> <<"volume_surge", "price_and_volume_up">>,
          oscillators |-> <<"K_oversold", "near_lower_band">>]
    ELSE [trend |-> <<"MA_bullish_alignment", "price_above_MA20", "MA5_rising">>,
          momentum |-> <<"RSI_healthy", "RSI_oversold", "MACD_golden_cross",
                         "MACD_above_zero">>,
          volume |-> <<"volume_surge", "price_and_volume_up", "volume_above_ma5">>,
          oscillators |-> <<"K_oversold", "KD_golden_cross", "near_lower_band",
                            "near_upper_band">>]

Place(seq, x) == CHOOSE k \in 1..Len(seq) : seq[k] = x

\* a keeps the order of b
InOrderOf(a, b) ==
    /\ Elements(a) \subseteq Elements(b)
    /\ \A i \in 1..Len(a), j \in 1..Len(a) : i < j => Place(b, a[i]) < Place(b, a[j])

\* the reasons of the categories in the order of the dict, the detected
\* patterns being the list of the patterns category
ReasonsOf(sig) ==
    sig.trend.reasons \o sig.momentum.reasons \o sig.volume.reasons
        \o sig.oscillators.reasons \o sig.patterns.patterns

\* C17: key_reasons of a populated result has at most 5 items and is the first
\* five entries of the concatenation of the categories' lists (trend, momentum,
\* volume, oscillators, patterns), each category's reasons standing in the order
\* in which its conditions are evaluated.
C17_KeyReasons ==
    Answered =>
        /\ Len(Latest.key_reasons) <= 5
        /\ Latest.key_reasons =
               SubSeq(ReasonsOf(Latest.detailed_signals), 1,
                      Min(5, Len(ReasonsOf(Latest.detailed_signals))))
        /\ \A c \in DOMAIN EvaluationOrder :
               InOrderOf(Latest.detailed_signals[c].reasons, EvaluationOrder[c])

\* more than five reasons were collected, a pattern among them, and five kept
C17_Witness ==
    /\ Answered
    /\ cls = "StockSignalAnalyzer"
    /\ Len(ReasonsOf(Latest.detailed_signals)) > 5
    /\ Latest.detailed_signals.patterns.patterns # <<>>
    /\ Len(Latest.key_reasons) = 5

\* the points of the momentum category that do not come from the RSI
MACDPoints ==
    signals.momentum.score
        - (IF "RSI_healthy" \in Elements(signals.momentum.reasons) THEN 10 ELSE 0)
        - (IF "RSI_oversold" \in Elements(signals.momentum.reasons) THEN 20 ELSE 0)

\* C18: the MACD part of the momentum score is 15 when MACD crossed above its
\* signal line between the previous and the latest bar (prev MACD <= prev
\* signal and MACD > signal), otherwise 15 when MACD > 0, otherwise 0, in both
\* analyzers.
C18_MACDMomentum ==
    Scored =>
        MACDPoints =
            IF GT(snap.MACD, snap.MACD_signal)
                   /\ LE(snap.prev_MACD, snap.prev_MACD_signal) THEN 15
            ELSE IF GT(snap.MACD, 0) THEN 15
            ELSE 0

---------------------------------------------------------------------------
\* Properties of the scorer on absent indicators (SpecAnalyze)

\* the indicator column is not attached to the series, or holds no number on
\* the latest bar
Absent(row, value) == ~row.has \/ ~IsNum(value)

\* C19: StockAnalyzer's scorer awards no points and no reason for a condition
\* whose indicator has no value on the latest bar, be it NaN or a column that
\* calculate_indicators never attached; no default (MA20 -> 0, RSI -> 50)
\* stands in for it.
C19_AbsentIndicatorSkipped ==
    (ret.op = "analyze" /\ ret.val.kind = "populated") =>
        LET sig == ret.val.detailed_signals
            row == df.row
        IN  /\ Absent(row, row.MA20) => sig.trend.reasons = <<>> /\ sig.trend.score = 0
            /\ Absent(row, row.RSI) =>
                   /\ "RSI_healthy" \notin Elements(sig.momentum.reasons)
                   /\ "RSI_oversold" \notin Elements(sig.momentum.reasons)
            /\ Absent(row, row.MACD) =>
                   "MACD_golden_cross" \notin Elements(sig.momentum.reasons)
            /\ Absent(row, row.K) =>
                   "K_oversold" \notin Elements(sig.oscillators.reasons)
            /\ Absent(row, row.BB_position) =>
                   "near_lower_band" \notin Elements(sig.oscillators.reasons)
            /\ Absent(row, row.volume_ma5) =>
                   "volume_surge" \notin Elements(sig.volume.reasons)

---------------------------------------------------------------------------
\* Properties of the indicator columns (SpecIndicators)

Enriched == iret.op \in {"calculate_indicators", "calculate_all_indicators"}
                /\ iret.val = TRUE

\* closes 100, 101, ... over ScenarioBars bars
LinearScenario ==
    /\ Len(series) = ScenarioBars
    /\ \A i \in 1..Len(series) : series[i].close = 100 + (i - 1)

\* the trend category the analyzer's scorer computes from the enriched series
TrendOfSeries ==
    IF cls = "StockAnalyzer" THEN SA_trend(LatestTrendRow(series, cols))
    ELSE SSA_analyze_trend(LatestTrendRow(series, cols))

\* C14: for the 60-bar series of closes 100, 101, ..., 159 calculate_indicators
\* leaves MA5 > MA10 > MA20 and close > MA20 on the final bar, and the trend
\* category of the scorer is at least 25.
C14_RisingSeriesTrend ==
    (Enriched /\ LinearScenario) =>
        LET row == LatestTrendRow(series, cols)
        IN  /\ GT(row.MA5, row.MA10)
            /\ GT(row.MA10, row.MA20)
            /\ GT(row.close, row.MA20)
            /\ TrendOfSeries.score >= 25

\* StockAnalyzer has enriched the linear series; its trend score is 15 + 10
C14_Witness ==
    /\ Enriched
    /\ LinearScenario
    /\ cls = "StockAnalyzer"
    /\ cols.MA5[ScenarioBars] > cols.MA20[ScenarioBars]
    /\ TrendOfSeries.score = 25

\* C16: on every bar that has the 14 deltas before it the RSI column holds a
\* number in 0..100; it is 100 when the average loss is 0 and the average gain
\* is positive; no window, one without any move included, gives NaN.
C16_RSIDefined ==
    Enriched =>
        \A i \in (RSIWindow + 1)..Len(series) :
            LET r == cols.RSI[i]
                g == rolling_sum(gain(Closes(series)), RSIWindow, i)
                l == rolling_sum(loss(Closes(series)), RSIWindow, i)
            IN  /\ r # RSI_NaN
                /\ r[2] > 0 /\ 0 <= r[1] /\ r[1] <= 100 * r[2]
                /\ (l = 0 /\ g > 0) => r[1] = 100 * r[2]

\* C20: calculate_indicators (calculate_all_indicators) on fewer than 30 bars
\* returns False and leaves the series as it was, no column attached; on 30 or
\* more bars it returns True and the bars are the same, in the same order, with
\* the same open, high, low, close and volume, every attached column having one
\* entry per bar.
C20_EnrichmentFrame ==
    [][ (iret'.op \in {"calculate_indicators", "calculate_all_indicators"}) =>
            /\ series' = series
            /\ IF Len(series) < MinBars
               THEN iret'.val = FALSE /\ cols' = cols
               ELSE /\ iret'.val = TRUE
                    /\ cols'.attached # {}
                    /\ Len(cols'.MA5) = Len(series)
                    /\ Len(cols'.RSI) = Len(series) ]_vars

\* a series of exactly 30 bars has been enriched
C20_Witness ==
    /\ Enriched
    /\ Len(series) = MinBars
    /\ "MA60" \in cols.attached
    /\ cols.MA20[MinBars] # NaN

---------------------------------------------------------------------------
\* Properties of the risk metrics (SpecRisk)

RiskDone == iret.op = "risk_metrics"

\* 19 bars of one close, then a bar with close 0
ZeroJump ==
    /\ Len(series) = MinRiskBars
    /\ \A i \in 1..(MinRiskBars - 1) : series[i].close = 100
    /\ series[MinRiskBars].close = 0

\* C15 as stated: on 19 identical closes followed by a close of 0 the risk
\* metrics are computed without an exception and the Sharpe ratio is 0.
C15_SharpeFallsBackToZero ==
    (RiskDone /\ ZeroJump) =>
        (iret.val.kind = "metrics" /\ iret.val.sharpe_ratio.sign = 0)

\* C15 amended: the risk metrics of a series of 20 or more bars are computed
\* without an exception; on 19 identical closes followed by a close of 0 the
\* returns are eighteen 0 and one -1, their stdev is positive, the guard does
\* not apply and the Sharpe ratio is -sqrt(252 / 19); the ratio is 0 exactly
\* when all returns are equal (the guard) or their mean is 0.
C15_SharpeOfZeroJump ==
    RiskDone =>
        /\ Len(series) >= MinRiskBars => iret.val.kind = "metrics"
        /\ Len(series) < MinRiskBars => iret.val.kind = "empty"
        /\ ZeroJump =>
               /\ iret.val.sharpe_ratio.sign = -1
               /\ iret.val.sharpe_ratio.num * (MinRiskBars - 1)
                      = iret.val.sharpe_ratio.den
               /\ iret.val.max_drawdown = 10000
        /\ iret.val.kind = "metrics" =>
               LET r == dropna(pct_change(Closes(series)))
               IN  iret.val.sharpe_ratio.sign = 0
                       <=> \/ \A i, j \in 1..Len(r) : r[i] = r[j]
                           \/ SeqSum(r, 1, Len(r)) = 0

\* the metrics of the scenario series, with a negative Sharpe ratio
C15_Witness ==
    /\ RiskDone
    /\ ZeroJump
    /\ iret.val.kind = "metrics"
    /\ iret.val.sharpe_ratio.sign = -1

---------------------------------------------------------------------------
\* Properties of the patterns and volume categories (SpecScore)

\* the hammer rule on the latest bar
HammerOnLatest ==
    LET body == Abs(snap.close - snap.open)
        lower == Min(snap.close, snap.open) - snap.low
        upper == snap.high - Max(snap.close, snap.open)
    IN  lower > 2 * body /\ 2 * upper < body

\* the morning star rule on the last three bars
MorningStarOnLatest ==
    /\ snap.d1_close < snap.d1_open
    /\ snap.prev_open < snap.d1_close
    /\ snap.close > snap.open
    /\ 2 * snap.close > snap.d1_open + snap.d1_close

PatternsPresent ==
    (IF HammerOnLatest THEN 1 ELSE 0) + (IF MorningStarOnLatest THEN 1 ELSE 0)

\* C21: the analyzer that produced the result has detected the hammer on the
\* latest bar and the morning star on the last three bars, and the raw score
\* of the patterns category is 10 for each pattern present, in both analyzers.
C21_PatternsScored ==
    Scored =>
        /\ signals.patterns.score = 10 * PatternsPresent
        /\ HammerOnLatest <=> "hammer" \in Elements(signals.patterns.patterns)
        /\ MorningStarOnLatest
               <=> "morning_star" \in Elements(signals.patterns.patterns)

\* C22: the raw score of the volume category is 20 if the volume ratio
\* (volume / 5-bar average volume) exceeds 1.5, plus 15 if close and volume
\* both rose against the previous bar, plus 10 if the volume exceeds its 5-bar
\* average, in both analyzers.
C22_VolumeScore ==
    Scored =>
        signals.volume.score =
            (IF IsNum(snap.volume) /\ IsNum(snap.volume_ma5)
                    /\ 2 * snap.volume > 3 * snap.volume_ma5 THEN 20 ELSE 0)
            + (IF GT(snap.close, snap.prev_close)
                      /\ GT(snap.volume, snap.prev_volume) THEN 15 ELSE 0)
            + (IF GT(snap.volume, snap.volume_ma5) THEN 10 ELSE 0)

---------------------------------------------------------------------------
\* Properties of the Bollinger position (SpecIndicators)

\* the 20 closes of the window that ends at bar i are equal: the 20-bar
\* standard deviation is 0 and the bands coincide
BandsCoincide(i) ==
    \A j \in (i - BBWindow + 1)..i : series[j].close = series[i].close

\* C23: on a bar where the Bollinger bands coincide, BB_position is the number
\* 0.5 and earns no oscillator points.
C23_FlatBandsNeutral ==
    (Enriched /\ iret.val) =>
        \A i \in BBWindow..Len(series) :
            BandsCoincide(i) =>
                /\ cols.BB_position[i].kind = "num"
                /\ cols.BB_position[i].off = 0
                /\ ~bb_below(cols.BB_position[i])
                /\ ~bb_above(cols.BB_position[i])

---------------------------------------------------------------------------
\* Properties of the realtime overlay (SpecSignals)

SignalsDone == rt_signals # Nothing

EnoughKlines ==
    realtime_data.kind = "data" /\ Len(realtime_data.kline_data) >= 3

LatestKline == realtime_data.kline_data[Len(realtime_data.kline_data)]
PrevKline == realtime_data.kline_data[Len(realtime_data.kline_data) - 1]

\* the latest bar has more than 1.5 times the volume of the previous one
VolumeSurge == 2 * LatestKline.volume > 3 * PrevKline.volume

DailyAction(a) == day_analysis.success /\ day_analysis.action = a

\* C24: overall_signal is BUY iff there are at least 3 intraday bars, the
\* daily analysis succeeded with action BUY and the latest bar has a volume
\* above 1.5 times the previous one with a positive change; SELL iff there are
\* at least 3 bars, the daily action is SELL and the latest bar has such a
\* volume with a negative change; HOLD in every other case; buy_signals and
\* sell_signals are never both non-empty.
C24_OverallSignal ==
    SignalsDone =>
        /\ rt_signals.overall_signal = "BUY"
               <=> (EnoughKlines /\ DailyAction("BUY") /\ VolumeSurge
                        /\ LatestKline.change_percent > 0)
        /\ rt_signals.overall_signal = "SELL"
               <=> (EnoughKlines /\ DailyAction("SELL") /\ VolumeSurge
                        /\ LatestKline.change_percent < 0)
        /\ rt_signals.overall_signal \in {"BUY", "SELL", "HOLD"}
        /\ ~(rt_signals.buy_signals # <<>> /\ rt_signals.sell_signals # <<>>)

\* a rising bar on a volume surge with a daily BUY: the overall signal is BUY
C24_Witness ==
    /\ SignalsDone
    /\ EnoughKlines
    /\ DailyAction("BUY")
    /\ rt_signals.buy_signals # <<>>
    /\ rt_signals.overall_signal = "BUY"

---------------------------------------------------------------------------
\* Properties of analyze_with_realtime (SpecBatchRealtime)

\* C25: in every record analyze_with_realtime returns, the daily analysis the
\* realtime overlay decided on (realtime_analysis.day_analysis) has the
\* confidence_score and the action of the record's day_analysis.
C25_OverlayOnEnrichedSeries ==
    bret.op = "analyze_with_realtime" =>
        \A k \in 1..Len(bret.val) :
            bret.val[k].realtime_analysis.kind = "combined" =>
                /\ bret.val[k].realtime_analysis.day_analysis.kind = "populated"
                /\ bret.val[k].realtime_analysis.day_analysis.confidence_score
                       = bret.val[k].day_analysis.confidence_score
                /\ bret.val[k].realtime_analysis.day_analysis.action
                       = bret.val[k].day_analysis.action

---------------------------------------------------------------------------
\* Properties of get_top_stocks after analyze_all (SpecTopStocks)

\* C26: a get_top_stocks(n) that follows an analyze_all(min_confidence = t)
\* returns the first min(n, len) elements of what that analyze_all returned,
\* leaves self.results as that run stored it, and every item it returns has a
\* confidence of at least t.
C26_TopOfTheLastRun ==
    [][(bret.op = "analyze_all" /\ bret'.op = "get_top_stocks") =>
           /\ bret'.val = SubSeq(bret.val, 1, Min(bret'.top_n, Len(bret.val)))
           /\ results' = results
           /\ \A k \in 1..Len(bret'.val) :
                  bret'.val[k].confidence_score >= min_conf]_vars

---------------------------------------------------------------------------
\* Properties of the analyzers that share the cache (SpecFetch)

AnswersSoFar ==
    IF FetchKey \in DOMAIN price_calls THEN price_calls[FetchKey] ELSE <<>>

\* C27: analyzers constructed for one key within one ttl window, starting
\* from an empty cache, call get_price at most once for that key (stated for
\* the runs in which every answer of get_price is a non-empty series, which is
\* then stored).
C27_OneFetchPerKey ==
    (/\ now < ttl
     /\ \A i \in 1..Len(AnswersSoFar) :
            AnswersSoFar[i].kind = "df" /\ AnswersSoFar[i].n > 0)
        => Len(AnswersSoFar) <= 1

\* C28: whatever _fetch_data, calculate_all_indicators and analyze calls were
\* made on the analyzers sharing the key, the series the cache holds has
\* exactly the rows and columns it had when it was stored, none of them an
\* indicator column, and it is not empty.
C28_CachedSeriesFrozen ==
    \A k \in DOMAIN cache :
        /\ heap[cache[k][1]] = stored[k]
        /\ heap[cache[k][1]].columns = BaseColumns \cup ReturnColumns
        /\ heap[cache[k][1]].n > 0

\* one analyzer stored the series, the other got it from the cache, and both
\* have computed their indicators and analyzed
C28_Witness ==
    /\ FetchKey \in DOMAIN cache
    /\ Len(AnswersSoFar) = 1
    /\ \A a \in Analyzers :
           /\ pc[a] = "ready"
           /\ loc[a].calculated = "True"
           /\ loc[a].analyzed = "populated"
           /\ selfdf[a] # cache[FetchKey][1]

---------------------------------------------------------------------------
\* Properties of the broadcast (SpecNews)

\* C29: a broadcast reaches exactly once every client that was subscribed to
\* the stock when it started and whose websocket accepts the send, whatever
\* happens to the sends to the other subscribers.
C29_BroadcastReachesAll ==
    nret.op = "broadcast" =>
        \A c \in Elements(nret.subscribers) :
            c \in nret.accepting => delivered[c] = 1

---------------------------------------------------------------------------
\* Properties of get_2min_data (SpecMinutes)

\* the 1-minute bar of minute t in the provider's answer
MinuteOf(t) == CHOOSE b \in Elements(minute_bars.bars) : b.t = t

\* C30: get_2min_data returns at most total_minutes // 2 bars; they are the
\* most recent two-minute bars, consecutive, each built from two consecutive
\* 1-minute bars (open of the first, close of the second, the larger high, the
\* smaller low, the sum of the volumes).
C30_AtMostHalfTheMinutes ==
    (two_min # Nothing /\ two_min.kind = "data") =>
        LET out == two_min.kline_data
            n == Len(minute_bars.bars)
        IN  /\ Len(out) <= total_minutes \div 2
            /\ \A j \in 1..Len(out) :
                   LET t2 == out[j].t
                   IN  /\ t2 = 2 * (n \div 2) - 2 * (Len(out) - j)
                       /\ out[j].open = MinuteOf(t2 - 1).open
                       /\ out[j].close = MinuteOf(t2).close
                       /\ out[j].high = Max(MinuteOf(t2 - 1).high, MinuteOf(t2).high)
                       /\ out[j].low = Min(MinuteOf(t2 - 1).low, MinuteOf(t2).low)
                       /\ out[j].volume = MinuteOf(t2 - 1).volume + MinuteOf(t2).volume

=============================================================================
